---- MODULE Spec2Model ----
(***************************************************************************)
(* Model of the backtest engine (src/engines/backtest_engine.py) and of    *)
(* the live trading engine (src/engines/live_trading_engine.py).           *)
(*                                                                         *)
(* Money, prices and quantities are Python floats in the source.  They are *)
(* modelled as exact rationals <<n, d>> (d > 0, lowest terms), so float    *)
(* rounding is not modelled.                                               *)
(***************************************************************************)
EXTENDS Integers, Sequences, FiniteSets, TLC

VARIABLES
    \* ---- BacktestEngine: configuration (__init__) ----
    initial_balance, trading_mode, position_percentage, symbol, spread_pips,
    \* ---- BacktestEngine: state (reset) ----
    position, entry_price, realized_gains, trades, current_balance, shares_held,
    \* ---- BacktestEngine.backtest: control ----
    bt_pc,        \* "idle" | "loop" | "done" | "analyzed"
    df,           \* rows of df_with_signals read so far (row 1 is iloc[0])
    replay,       \* the DataFrame of the previous call when it is run again
    runs,         \* number of backtest() calls made on this instance
    prev_trades,  \* trade list returned by the previous backtest() call
    analysis,     \* result of analyze_results on the returned trades
    \* ---- LiveTradingEngine: configuration (__init__) ----
    lt_initial_balance, lt_trading_mode, lt_position_percentage, lt_symbol,
    \* ---- LiveTradingEngine: state (reset) ----
    lt_position, lt_entry_price, lt_trades, running, lt_current_balance,
    pending_orders,    \* order id -> [symbol, side, quantity]
    order_timestamps,  \* order id -> time the order was placed (minutes)
    \* ---- LiveTradingEngine.run_strategy: control ----
    rs_pc,           \* "idle" | "top" | "body" | "display" | "chart" | "inc" |
                     \* "sleep" | "done"
    iteration,
    max_iterations,  \* 0 stands for None
    rs_quantity,     \* the quantity argument; NoQuantity stands for None
    \* ---- the broker and the clock (collaborators) ----
    br_qty,          \* the position the broker actually holds for the symbol
    br_orders,       \* the broker's book: order id -> "pending" | "filled" |
                     \* "canceled"
    br_next_id,      \* order ids handed out so far
    now,             \* wall clock, in minutes
    \* ---- history of the latest calls (observation only) ----
    call,            \* inputs and effects of the latest process_signals call
    exit_cause,      \* why run_strategy returned
    \* ---- SimulatedBroker: local account state (reset_account) ----
    cash_balance,
    positions,       \* symbol -> [qty, avg_entry_price, side]
    trade_history,   \* executed fills, oldest first
    order_counter,   \* number of the next order id
    orders           \* pending limit orders: order id -> order details

btvars == <<initial_balance, trading_mode, position_percentage, symbol, spread_pips,
            position, entry_price, realized_gains, trades, current_balance,
            shares_held, bt_pc, df, replay, runs, prev_trades, analysis>>

ltcfg == <<lt_initial_balance, lt_trading_mode, lt_position_percentage, lt_symbol>>

ltvars == <<ltcfg, lt_position, lt_entry_price, lt_trades, running,
            lt_current_balance, pending_orders, order_timestamps, rs_pc,
            iteration, max_iterations, rs_quantity, br_qty, br_orders,
            br_next_id, now, call, exit_cause>>

sbvars == <<cash_balance, positions, trade_history, order_counter, orders>>

vars == <<btvars, ltvars, sbvars>>

-----------------------------------------------------------------------------
(* Bounds of the model *)

\* longest DataFrame given to backtest() (rows, the unread first one included)
MaxBars == 4
\* longest DataFrame in the specification that runs backtest() twice
MaxBarsRerun == 3
\* backtest() calls on one engine instance in the specification that reruns
MaxRuns == 2
\* iterations of the live loop that are explored
MaxIter == 2
\* limit orders placed through execute_buy_order / execute_sell_order
MaxOrders == 1

-----------------------------------------------------------------------------
(* Exact rational arithmetic standing in for Python floats *)

Abs(x) == IF x < 0 THEN -x ELSE x

RECURSIVE GCD(_, _)
GCD(a, b) == IF b = 0 THEN a ELSE GCD(b, a % b)

\* the rational n/d (d # 0) in lowest terms with positive denominator
Rat(n, d) ==
    LET s == IF d < 0 THEN -1 ELSE 1
        g == GCD(Abs(n), Abs(d))
    IN  <<(s * n) \div g, (s * d) \div g>>

R(n) == <<n, 1>>

RAdd(a, b) ==
    LET g == GCD(a[2], b[2])
    IN  Rat(a[1] * (b[2] \div g) + b[1] * (a[2] \div g), (a[2] \div g) * b[2])

RNeg(a) == <<-a[1], a[2]>>

RSub(a, b) == RAdd(a, RNeg(b))

RMul(a, b) ==
    LET g1 == GCD(Abs(a[1]), b[2])
        g2 == GCD(Abs(b[1]), a[2])
    IN  Rat((a[1] \div g1) * (b[1] \div g2), (a[2] \div g2) * (b[2] \div g1))

\* a / b, b # 0
RDiv(a, b) == RMul(a, IF b[1] > 0 THEN <<b[2], b[1]>> ELSE <<-b[2], -b[1]>>)

RPos(a) == a[1] > 0
RLt(a, b) == RSub(a, b)[1] < 0
RLe(a, b) == RSub(a, b)[1] <= 0
RGt(a, b) == RLt(b, a)
RGe(a, b) == RLe(b, a)

-----------------------------------------------------------------------------
(* Inputs *)

\* Close prices of the bars
Prices == {50, 100, 110}

\* a row of df_with_signals; the timestamp column is the row's place in the
\* frame (providers return rows ascending by timestamp, without duplicates)
Rows == [Close : {R(p) : p \in Prices}, buy : BOOLEAN, sell : BOOLEAN]

\* constructor arguments (initial_balance, trading_mode, position_percentage,
\* symbol, spread_pips)
Configs ==
    [initial_balance : {10000},
     trading_mode : {"long_only", "long_short"},
     position_percentage : {50, 100, 150},
     symbol : {"AAPL"},
     spread_pips : {R(0)}]

NoFrame == <<[Close |-> R(0), buy |-> FALSE, sell |-> FALSE, none |-> TRUE]>>

-----------------------------------------------------------------------------
(* BacktestEngine *)

is_forex == symbol \in {"C:EURUSD", "C:USDJPY"}

\* pip_value = 0.0001 if 'JPY' not in self.symbol else 0.01
pip_value == IF symbol = "C:USDJPY" THEN Rat(1, 100) ELSE Rat(1, 10000)

spread_cost == RMul(spread_pips, pip_value)

\* buy at ask price
AskPrice(price) ==
    IF is_forex /\ RPos(spread_pips) THEN RAdd(price, spread_cost) ELSE price

\* sell at bid price
BidPrice(price) ==
    IF is_forex /\ RPos(spread_pips) THEN RSub(price, spread_cost) ELSE price

\* the mutable fields of the engine as one value
Ledger ==
    [position |-> position, entry_price |-> entry_price,
     realized_gains |-> realized_gains, trades |-> trades,
     current_balance |-> current_balance, shares_held |-> shares_held]

ResetNoBalance(L) ==
    [position |-> 0, entry_price |-> R(0), realized_gains |-> R(0),
     trades |-> <<>>, current_balance |-> L.current_balance, shares_held |-> R(0)]

\* reset(): the engine state after construction and at the start of backtest()
Reset(L) ==
    [position |-> 0, entry_price |-> R(0), realized_gains |-> R(0),
     trades |-> <<>>, current_balance |-> R(initial_balance), shares_held |-> R(0)]

CashWorth(L) == L.current_balance

\* _calculate_account_worth_realized_only
CalculateAccountWorthRealizedOnly(L) ==
    RAdd(R(initial_balance), L.realized_gains)

ResultOfBreakEvenWins(profit) == IF RGe(profit, R(0)) THEN "Win" ELSE "Loss"

\* "Win" if profit > 0 else "Loss"
ResultOf(profit) == IF RPos(profit) THEN "Win" ELSE "Loss"

LongProfitFromCash(shares, entry, exit_price) == RMul(shares, exit_price)

\* profit = proceeds - cost_basis (closing a long)
LongProfit(shares, entry, exit_price) ==
    RSub(RMul(shares, exit_price), RMul(shares, entry))

\* a short profit with the sign of a long's
ShortProfitAsLong(shares, entry, close_price) ==
    RMul(shares, RSub(close_price, entry))

\* profit = shares_held * (entry_price - close_price) (closing a short)
ShortProfit(shares, entry, close_price) ==
    RMul(shares, RSub(entry, close_price))

\* trade_amount of an opening BUY: balance * percentage, at most the balance
BuyTradeAmount(balance) ==
    LET trade_amount == RMul(balance, position_percentage)
    IN  IF RGt(trade_amount, balance) THEN balance ELSE trade_amount

\* trade_amount of an opening SELL_SHORT: balance * percentage
ShortTradeAmount(balance) == RMul(balance, position_percentage)

\* the BUY branch: open a long at the ask price
OpenLong(L, row, i) ==
    LET price == AskPrice(row.Close)
        trade_amount == BuyTradeAmount(L.current_balance)
        shares_to_buy == RDiv(trade_amount, price)
        actual_cost == RMul(shares_to_buy, price)
        balance == RSub(L.current_balance, actual_cost)
        L1 == [L EXCEPT !.current_balance = balance]
        total_account_worth == CalculateAccountWorthRealizedOnly(L1)
        trade_data ==
            [Time |-> i, Price |-> price, Position |-> 1, Index |-> i,
             Action |-> "BUY", Shares |-> shares_to_buy, Cost |-> actual_cost,
             Last_Trade_Realized |-> R(0), Balance |-> balance,
             Total_Account_Worth |-> total_account_worth,
             Total_Profit |-> RSub(total_account_worth, R(initial_balance)),
             Trade_Result |-> "OPEN"]
    IN  IF RPos(actual_cost) /\ RGe(L.current_balance, actual_cost)
        THEN [L1 EXCEPT !.trades = Append(L.trades, trade_data),
                        !.position = 1,
                        !.entry_price = price,
                        !.shares_held = shares_to_buy]
        ELSE L

\* closing the long position at the bid price; keep_entry: the long/short
\* branch leaves entry_price as it was, the long-only branch zeroes it
CloseLong(L, row, i, action, keep_entry) ==
    LET price == BidPrice(row.Close)
        proceeds == RMul(L.shares_held, price)
        profit == LongProfit(L.shares_held, L.entry_price, price)
        balance == RAdd(L.current_balance, proceeds)
        L1 == [L EXCEPT !.current_balance = balance,
                        !.realized_gains = RAdd(L.realized_gains, profit)]
        total_account_worth == CalculateAccountWorthRealizedOnly(L1)
        trade_data ==
            [Time |-> i, Price |-> price, Position |-> 0, Index |-> i,
             Action |-> action, Shares |-> L.shares_held, Proceeds |-> proceeds,
             Profit |-> profit, Last_Trade_Realized |-> profit,
             Result |-> ResultOf(profit), Balance |-> balance,
             Total_Account_Worth |-> total_account_worth,
             Total_Profit |-> RSub(total_account_worth, R(initial_balance)),
             Trade_Result |-> ResultOf(profit)]
    IN  [L1 EXCEPT !.trades = Append(L.trades, trade_data),
                   !.position = 0,
                   !.entry_price = IF keep_entry THEN L.entry_price ELSE R(0),
                   !.shares_held = R(0)]

\* a close of the short that forgets to zero shares_held
CloseShortKeepsShares(L, row, i) ==
    LET close_price == AskPrice(row.Close)
        cost_to_close == RMul(L.shares_held, close_price)
        profit == ShortProfit(L.shares_held, L.entry_price, close_price)
        balance == RSub(L.current_balance, cost_to_close)
        L1 == [L EXCEPT !.current_balance = balance,
                        !.realized_gains = RAdd(L.realized_gains, profit)]
        total_account_worth == CalculateAccountWorthRealizedOnly(L1)
        trade_data ==
            [Time |-> i, Price |-> close_price, Position |-> 0, Index |-> i,
             Action |-> "CLOSE_SHORT", Shares |-> L.shares_held,
             Profit |-> profit, Last_Trade_Realized |-> profit,
             Result |-> ResultOf(profit), Balance |-> balance,
             Total_Account_Worth |-> total_account_worth,
             Total_Profit |-> RSub(total_account_worth, R(initial_balance)),
             Trade_Result |-> ResultOf(profit)]
    IN  [L1 EXCEPT !.trades = Append(L.trades, trade_data),
                   !.position = 0]

\* closing the short position at the ask price
CloseShort(L, row, i) ==
    LET close_price == AskPrice(row.Close)
        cost_to_close == RMul(L.shares_held, close_price)
        profit == ShortProfit(L.shares_held, L.entry_price, close_price)
        balance == RSub(L.current_balance, cost_to_close)
        L1 == [L EXCEPT !.current_balance = balance,
                        !.realized_gains = RAdd(L.realized_gains, profit)]
        total_account_worth == CalculateAccountWorthRealizedOnly(L1)
        trade_data ==
            [Time |-> i, Price |-> close_price, Position |-> 0, Index |-> i,
             Action |-> "CLOSE_SHORT", Shares |-> L.shares_held,
             Profit |-> profit, Last_Trade_Realized |-> profit,
             Result |-> ResultOf(profit), Balance |-> balance,
             Total_Account_Worth |-> total_account_worth,
             Total_Profit |-> RSub(total_account_worth, R(initial_balance)),
             Trade_Result |-> ResultOf(profit)]
    IN  [L1 EXCEPT !.trades = Append(L.trades, trade_data),
                   !.position = 0,
                   !.shares_held = R(0)]

\* the SELL_SHORT branch: open a short at the bid price; the record's Price
\* is the bar's close
OpenShort(L, row, i) ==
    LET short_price == BidPrice(row.Close)
        trade_amount == ShortTradeAmount(L.current_balance)
        shares_to_short == RDiv(trade_amount, short_price)
        proceeds_from_short == RMul(shares_to_short, short_price)
        balance == RAdd(L.current_balance, proceeds_from_short)
        L1 == [L EXCEPT !.current_balance = balance,
                        !.position = -1,
                        !.entry_price = short_price,
                        !.shares_held = shares_to_short]
        total_account_worth == CalculateAccountWorthRealizedOnly(L1)
        trade_data ==
            [Time |-> i, Price |-> row.Close, Position |-> -1, Index |-> i,
             Action |-> "SELL_SHORT", Shares |-> shares_to_short,
             Proceeds |-> proceeds_from_short,
             Last_Trade_Realized |-> R(0), Balance |-> balance,
             Total_Account_Worth |-> total_account_worth,
             Total_Profit |-> RSub(total_account_worth, R(initial_balance)),
             Trade_Result |-> "OPEN"]
    IN  IF RPos(shares_to_short)
        THEN [L1 EXCEPT !.trades = Append(L.trades, trade_data)]
        ELSE L

CanOpenLongAnyPosition(L, row) == row.buy /\ RPos(L.current_balance)

\* long-only: buy only if no position exists and the account has funds
CanOpenLong(L, row) == row.buy /\ L.position = 0 /\ RPos(L.current_balance)

ProcessLongOnlyCloseOnAnySignal(L, row, i) ==
    IF CanOpenLong(L, row) THEN OpenLong(L, row, i)
    ELSE IF (row.sell \/ row.buy) /\ L.position = 1 THEN CloseLong(L, row, i, "CLOSE", FALSE)
    ELSE L

\* _process_long_only_signals
ProcessLongOnlySignals(L, row, i) ==
    IF CanOpenLong(L, row) THEN OpenLong(L, row, i)
    ELSE IF row.sell /\ L.position = 1 THEN CloseLong(L, row, i, "CLOSE", FALSE)
    ELSE L

\* "if self.current_balance > 0" before the open that follows a close
HasFunds(L) == RPos(L.current_balance)

ProcessLongShortCloseOnly(L, row, i) ==
    IF row.buy /\ L.position # 1
    THEN IF L.position = -1 /\ RPos(L.shares_held)
         THEN CloseShort(L, row, i)
         ELSE IF HasFunds(L) THEN OpenLong(L, row, i) ELSE L
    ELSE IF row.sell /\ L.position # -1
    THEN IF L.position = 1 /\ RPos(L.shares_held)
         THEN CloseLong(L, row, i, "CLOSE_LONG", TRUE)
         ELSE IF HasFunds(L) THEN OpenShort(L, row, i) ELSE L
    ELSE L

\* a long/short processing that refills a flat account without funds
ProcessLongShortRefilled(L, row, i) ==
    LET Refill(M) == [M EXCEPT !.current_balance = R(initial_balance)]
    IN  IF L.position = 0 /\ ~HasFunds(L) /\ (row.buy \/ row.sell)
        THEN IF row.buy THEN OpenLong(Refill(L), row, i)
             ELSE OpenShort(Refill(L), row, i)
        ELSE IF row.buy /\ L.position # 1
        THEN LET L1 == IF L.position = -1 /\ RPos(L.shares_held)
                       THEN CloseShort(L, row, i) ELSE L
             IN  IF HasFunds(L1) THEN OpenLong(L1, row, i) ELSE L1
        ELSE IF row.sell /\ L.position # -1
        THEN LET L1 == IF L.position = 1 /\ RPos(L.shares_held)
                       THEN CloseLong(L, row, i, "CLOSE_LONG", TRUE) ELSE L
             IN  IF HasFunds(L1) THEN OpenShort(L1, row, i) ELSE L1
        ELSE L

\* _process_long_short_signals
ProcessLongShortSignals(L, row, i) ==
    IF row.buy /\ L.position # 1
    THEN LET L1 == IF L.position = -1 /\ RPos(L.shares_held)
                   THEN CloseShort(L, row, i) ELSE L
         IN  IF HasFunds(L1) THEN OpenLong(L1, row, i) ELSE L1
    ELSE IF row.sell /\ L.position # -1
    THEN LET L1 == IF L.position = 1 /\ RPos(L.shares_held)
                   THEN CloseLong(L, row, i, "CLOSE_LONG", TRUE) ELSE L
         IN  IF HasFunds(L1) THEN OpenShort(L1, row, i) ELSE L1
    ELSE L

SetLedger(L) ==
    /\ position' = L.position
    /\ entry_price' = L.entry_price
    /\ realized_gains' = L.realized_gains
    /\ trades' = L.trades
    /\ current_balance' = L.current_balance
    /\ shares_held' = L.shares_held

cfgvars == <<initial_balance, trading_mode, position_percentage, symbol, spread_pips>>

\* backtest(): self.reset(), then the loop starts at the second row
Backtest(again) ==
    /\ bt_pc \in {"idle", "done", "analyzed"}
    /\ runs < MaxRuns
    /\ IF again THEN bt_pc # "idle" ELSE bt_pc = "idle"
    /\ SetLedger(Reset(Ledger))
    /\ bt_pc' = "loop"
    /\ df' = <<>>
    /\ replay' = IF again THEN df ELSE NoFrame
    /\ runs' = runs + 1
    /\ prev_trades' = trades
    /\ analysis' = [raised |-> FALSE, none |-> TRUE]
    /\ UNCHANGED <<cfgvars, ltvars, sbvars>>

\* the first row of a frame: the loop never reads it, one price is enough
FirstRows == {r \in Rows : r.Close = R(100)}

\* the rows of the frame are drawn as the loop reads them, unless the call
\* repeats the previous frame
NextRowIs(row, bound) ==
    IF replay = NoFrame
    THEN Len(df) < bound /\ row \in (IF Len(df) = 0 THEN FirstRows ELSE Rows)
    ELSE Len(df) < Len(replay) /\ row = replay[Len(df) + 1]

BarFromFirstRow(row, bound) ==
    /\ bt_pc = "loop"
    /\ NextRowIs(row, bound)
    /\ df' = Append(df, row)
    /\ LET i == Len(df)
       IN  IF trading_mode = "long_only"
           THEN SetLedger(ProcessLongOnlySignals(Ledger, row, i))
           ELSE SetLedger(ProcessLongShortSignals(Ledger, row, i))
    /\ UNCHANGED <<cfgvars, bt_pc, replay, runs, prev_trades, analysis, ltvars, sbvars>>

\* one pass of "for i in range(1, len(df_with_signals))"; iloc[0] is skipped
Bar(row, bound) ==
    /\ bt_pc = "loop"
    /\ NextRowIs(row, bound)
    /\ df' = Append(df, row)
    /\ LET i == Len(df)
       IN  IF i = 0 THEN SetLedger(Ledger)
           ELSE IF trading_mode = "long_only"
                THEN SetLedger(ProcessLongOnlySignals(Ledger, row, i))
                ELSE SetLedger(ProcessLongShortSignals(Ledger, row, i))
    /\ UNCHANGED <<cfgvars, bt_pc, replay, runs, prev_trades, analysis, ltvars, sbvars>>

\* the loop ends: return pd.DataFrame(self.trades)
Return ==
    /\ bt_pc = "loop"
    /\ replay # NoFrame => Len(df) = Len(replay)
    /\ bt_pc' = "done"
    /\ UNCHANGED <<cfgvars, position, entry_price, realized_gains, trades,
                   current_balance, shares_held, df, replay, runs, prev_trades,
                   analysis, ltvars, sbvars>>

\* columns of pd.DataFrame(self.trades): the union of the records' keys
HasColumn(trade_df, c) == \E k \in DOMAIN trade_df : c \in DOMAIN trade_df[k]

\* rows in which column c is not NaN
NotNa(t, c) == c \in DOMAIN t

RECURSIVE SumProfit(_)
\* sum of the Profit column over the completed records
SumProfit(trs) ==
    IF trs = <<>> THEN R(0)
    ELSE LET t == trs[Len(trs)]
             rest == SumProfit(SubSeq(trs, 1, Len(trs) - 1))
         IN  IF NotNa(t, "Profit") THEN RAdd(rest, t.Profit) ELSE rest

RMaxOf(S) == CHOOSE p \in S : \A q \in S : RLe(q, p)
RMinOf(S) == CHOOSE p \in S : \A q \in S : RLe(p, q)

ZeroResult(final_balance) ==
    [raised |-> FALSE, num_trades |-> 0, winrate |-> R(0),
     final_balance |-> final_balance,
     net_returns |-> RSub(final_balance, R(initial_balance)),
     percent_return |->
        RMul(RDiv(RSub(final_balance, R(initial_balance)), R(initial_balance)), R(100)),
     avg_profit_per_trade |-> R(0), largest_win |-> R(0), largest_loss |-> R(0)]

\* final_balance of a frame with completed trades: the last row's
\* Total_Account_Worth (every record of the engine carries that column)
FinalBalance(trade_df) == trade_df[Len(trade_df)].Total_Account_Worth

AnalyzeResultsWithoutEmptyCheck(trade_df) == [raised |-> TRUE, error |-> "KeyError"]

\* analyze_results; raised: the call ends in an exception (dropna raises
\* KeyError when a column of its subset is missing from the frame)
AnalyzeResults(trade_df) ==
    IF Len(trade_df) = 0 THEN ZeroResult(R(initial_balance))
    ELSE IF ~(HasColumn(trade_df, "Profit") /\ HasColumn(trade_df, "Result"))
    THEN [raised |-> TRUE, error |-> "KeyError"]
    ELSE
    LET completed_trades ==
            SelectSeq(trade_df, LAMBDA t : NotNa(t, "Profit") /\ NotNa(t, "Result"))
        num_trades == Len(completed_trades)
        wins == SelectSeq(completed_trades, LAMBDA t : t.Result = "Win")
        final_balance == FinalBalance(trade_df)
        net_returns == RSub(final_balance, R(initial_balance))
        profits == {completed_trades[k].Profit : k \in DOMAIN completed_trades}
    IN  IF num_trades = 0
        THEN ZeroResult(trade_df[Len(trade_df)].Balance)
        ELSE [raised |-> FALSE, num_trades |-> num_trades,
              winrate |-> RMul(Rat(Len(wins), num_trades), R(100)),
              final_balance |-> final_balance,
              net_returns |-> net_returns,
              percent_return |-> RMul(RDiv(net_returns, R(initial_balance)), R(100)),
              avg_profit_per_trade |-> RDiv(net_returns, R(num_trades)),
              largest_win |-> RMaxOf(profits),
              largest_loss |-> RMinOf(profits)]

\* engine.analyze_results(trade_df) on the frame backtest() returned
Analyze ==
    /\ bt_pc = "done"
    /\ bt_pc' = "analyzed"
    /\ analysis' = AnalyzeResults(trades)
    /\ UNCHANGED <<cfgvars, position, entry_price, realized_gains, trades,
                   current_balance, shares_held, df, replay, runs, prev_trades,
                   ltvars, sbvars>>

-----------------------------------------------------------------------------
(* LiveTradingEngine: collaborators' answers *)

\* limit orders placed on the engine: for the symbol it trades, and for
\* another symbol
LimitOrders == {<<"AAPL", "buy">>, <<"AAPL", "sell">>, <<"MSFT", "buy">>}

\* the latest row of the live frame (Close fixed, signals free)
LiveRows == [Close : {R(100)}, buy : BOOLEAN, sell : BOOLEAN]

\* no account report was obtained
NoSnap == [equity |-> 0, buying_power |-> 0]

\* what the broker's account query reports during one call
AccountSnapshots ==
    {[equity |-> 300, buying_power |-> 300],
     [equity |-> 300, buying_power |-> 50],
     [equity |-> 0, buying_power |-> 300],
     [equity |-> -100, buying_power |-> 300]}

\* an account query answers, raises, or answers {} (get_account_api on error)
AcctOutcomes == {"ok", "raises", "empty"}
\* a position query answers or raises
PosOutcomes == {"ok", "raises"}
\* broker.buy / sell / close_position: the result's status, or an exception
OrderOutcomes == {"filled", "pending", "failed", "raises"}
\* broker.cancel_order: a result with that status, or an exception
CancelOutcomes == {"canceled", "failed", "raises"}
\* _validate_signals: apart from the signals themselves
Validations == {"ok", "short_lookback", "validator_false", "raises"}

NoQuantity == <<0, 0>>

NoCall ==
    [n |-> 0, empty |-> TRUE, buy |-> FALSE, sell |-> FALSE, valid |-> FALSE,
     validated |-> FALSE, acted |-> FALSE,
     pos_outcome |-> "none", br_qty_before |-> R(0), current_qty |-> R(0),
     snap |-> NoSnap,
     quantity |-> NoQuantity, price |-> R(0),
     confirm |-> "none", confirm_equity |-> R(0), confirm_buying_power |-> R(0),
     validation |-> "none", pending_buy |-> FALSE, cancel_raised |-> {},
     sent |-> <<>>, outcome |-> "none", appended |-> 0, exc |-> "none"]

-----------------------------------------------------------------------------
(* LiveTradingEngine *)

\* get_alpaca_account: the broker's answer, or the local balance when the
\* query raises; has: whether the dict has the equity / buying_power keys
GetAlpacaAccount(outcome, snap) ==
    IF outcome = "ok"
    THEN [has |-> TRUE, equity |-> R(snap.equity),
          buying_power |-> R(snap.buying_power)]
    ELSE IF outcome = "empty"
    THEN [has |-> FALSE, equity |-> R(0), buying_power |-> R(0)]
    ELSE [has |-> TRUE, equity |-> lt_current_balance,
          buying_power |-> lt_current_balance]

\* account_info.get(key, default)
DictGet(info, key, default) == IF info.has THEN info[key] ELSE default

\* get_alpaca_position: qty of the broker's answer, '0' when the query raises
GetAlpacaPosition(outcome, actual_qty) ==
    IF outcome = "ok" THEN actual_qty ELSE R(0)

ValidateSignalsNoConflictCheck(validation, buy_signal, sell_signal) ==
    validation = "ok"

ValidateSignalsUncaught(validation, buy_signal, sell_signal) ==
    IF validation = "short_lookback" THEN FALSE
    ELSE IF buy_signal /\ sell_signal THEN FALSE
    ELSE IF validation = "validator_false" THEN FALSE
    ELSE TRUE

\* _validate_signals
ValidateSignals(validation, buy_signal, sell_signal) ==
    IF validation = "raises" THEN FALSE
    ELSE IF validation = "short_lookback" THEN FALSE
    ELSE IF buy_signal /\ sell_signal THEN FALSE
    ELSE IF validation = "validator_false" THEN FALSE
    ELSE TRUE

ConfirmTradeExecutionEquityOnly(action, quantity, current_price, account_info) ==
    RPos(DictGet(account_info, "equity", R(0)))

\* _confirm_trade_execution
ConfirmTradeExecution(action, quantity, current_price, account_info) ==
    LET buying_power == DictGet(account_info, "buying_power", R(0))
        account_balance == DictGet(account_info, "equity", R(0))
        trade_value == RMul(quantity, current_price)
    IN  IF ~RPos(account_balance) THEN FALSE
        ELSE IF action = "BUY" /\ RGt(trade_value, buying_power) THEN FALSE
        ELSE IF action = "BUY" /\ RGt(trade_value, account_balance) THEN FALSE
        ELSE TRUE

\* quantity from the position percentage (process_signals, quantity is None)
ComputeQuantity(account_balance, current_price) ==
    LET trade_amount == RMul(account_balance, lt_position_percentage)
        quantity == RDiv(trade_amount, current_price)
        whole == quantity[1] \div quantity[2]
    IN  IF lt_symbol \in {"BTC/USD"}
        THEN (IF RGt(Rat(1, 1000), quantity) THEN Rat(1, 1000) ELSE quantity)
        ELSE R(IF whole < 1 THEN 1 ELSE whole)

HasPending(pending, sym, side) ==
    \E id \in DOMAIN pending : pending[id].symbol = sym /\ pending[id].side = side

\* restriction of a dict to the keys outside S
Without(f, S) == [id \in DOMAIN f \ S |-> f[id]]

CatchesAllButChart(site) == site # "chart_callback"

\* "except Exception" around the body of one iteration of run_strategy
Catches(site) == site \in {"get_live_data", "process_signals", "display", "chart_callback"}

\* the working state of one process_signals call
StartOfCall(row) ==
    [trades |-> lt_trades, pending |-> pending_orders, stamps |-> order_timestamps,
     br_qty |-> br_qty, orders |-> br_orders, position |-> lt_position, entry_price |-> lt_entry_price,
     obs |-> [NoCall EXCEPT !.n = iteration + 1, !.empty = FALSE,
                            !.buy = row.buy, !.sell = row.sell,
                            !.price = row.Close,
                            !.br_qty_before = br_qty]]

\* what "except Exception" of the iteration does with an exception raised at
\* site; without an exception the next statement of the try block runs
AfterStep(site, next_pc) ==
    IF site = "none" THEN rs_pc' = next_pc /\ exit_cause' = exit_cause
    ELSE IF Catches(site) THEN rs_pc' = "inc" /\ exit_cause' = exit_cause
    ELSE rs_pc' = "done" /\ exit_cause' = "exception"

\* the end of process_signals inside the iteration's try block: exc names the
\* place that raised
BodyFinish(c, exc) ==
    /\ lt_trades' = c.trades
    /\ pending_orders' = c.pending
    /\ order_timestamps' = c.stamps
    /\ br_qty' = c.br_qty
    /\ br_orders' = c.orders
    /\ lt_position' = c.position
    /\ lt_entry_price' = c.entry_price
    /\ call' = [c.obs EXCEPT !.exc = exc]
    /\ AfterStep(exc, "display")
    /\ UNCHANGED <<ltcfg, lt_current_balance, iteration, max_iterations,
                   rs_quantity, br_next_id, now, running>>

\* process_signals returns
AfterProcess(c) == BodyFinish(c, "none")

\* lines 369-379: the local position follows the quantity fetched at line 327
SyncPosition(c) ==
    LET q == c.obs.current_qty
    IN  AfterProcess([c EXCEPT !.position = IF RPos(q) THEN 1 ELSE IF q[1] < 0 THEN -1 ELSE 0,
                               !.entry_price = IF q[1] # 0 THEN c.obs.price ELSE R(0)])

\* an order reached the broker with this outcome: the broker's position
BrokerAfter(qty, kind, quantity, outcome) ==
    IF outcome # "filled" THEN qty
    ELSE IF kind = "buy" THEN RAdd(qty, quantity)
    ELSE IF kind = "sell" THEN RSub(qty, quantity)
    ELSE R(0)

StatusOfUncaught(outcome) == outcome

\* status of the dict execute_buy_order / execute_sell_order / close_position
\* return: an exception of the broker becomes status 'failed'
StatusOf(outcome) == IF outcome = "raises" THEN "failed" ELSE outcome

LiveTrade(c, action, quantity, status) ==
    [timestamp |-> c.obs.n, action |-> action, price |-> c.obs.price,
     quantity |-> quantity, status |-> status]

\* an order is sent; recorded: the statuses that do not append a trade; with
\* refresh the broker's positions are refreshed before the trade is appended
\* (refresh_positions is called outside any try block)
SendOrder(c, kind, action, quantity, not_recorded, refresh) ==
    \E outcome \in OrderOutcomes :
        LET c1 == [c EXCEPT !.br_qty = BrokerAfter(c.br_qty, kind, quantity, outcome),
                            !.obs.sent = Append(c.obs.sent, kind),
                            !.obs.outcome = outcome,
                            !.obs.acted = TRUE]
            c2 == [c1 EXCEPT !.trades = Append(c.trades,
                                    LiveTrade(c, action, quantity, StatusOf(outcome))),
                             !.obs.appended = c.obs.appended + 1]
        IN  IF StatusOf(outcome) \in not_recorded THEN SyncPosition(c1)
            ELSE IF ~refresh THEN SyncPosition(c2)
            ELSE \E refresh_positions \in {"ok", "raises"} :
                    IF refresh_positions = "raises"
                    THEN BodyFinish(c1, "process_signals")
                    ELSE SyncPosition(c2)

\* the report an account query with this outcome obtains: the one already
\* obtained during the call, if any
SnapsFor(c, outcome) ==
    IF outcome # "ok" \/ c.obs.snap # NoSnap THEN {c.obs.snap} ELSE AccountSnapshots

\* _confirm_trade_execution with a fresh account query, then the order
ConfirmAndSend(c, confirm_action, kind, action) ==
    \E a \in AcctOutcomes : \E snap \in SnapsFor(c, a) :
        LET account_info == GetAlpacaAccount(a, snap)
            c1 == [c EXCEPT !.obs.confirm = a, !.obs.snap = snap,
                            !.obs.confirm_equity = DictGet(account_info, "equity", R(0)),
                            !.obs.confirm_buying_power =
                                DictGet(account_info, "buying_power", R(0)),
                            !.obs.acted = TRUE]
        IN  IF ConfirmTradeExecution(confirm_action, c.obs.quantity, c.obs.price, account_info)
            THEN SendOrder(c1, kind, action, c.obs.quantity, {"failed", "pending"}, TRUE)
            ELSE SyncPosition(c1)

\* _process_long_only_signals
LtProcessLongOnlySignals(c) ==
    LET current_qty == c.obs.current_qty
        has_pending_buy == HasPending(c.pending, lt_symbol, "buy")
        c0 == [c EXCEPT !.obs.pending_buy = has_pending_buy]
    IN  IF c.obs.buy /\ current_qty = R(0) /\ ~has_pending_buy
        THEN ConfirmAndSend(c0, "BUY", "buy", "buy_long")
        ELSE IF c.obs.buy THEN SyncPosition(c0)
        ELSE IF c.obs.sell /\ RPos(current_qty)
        THEN SendOrder(c0, "close", "close_position", current_qty,
                       {"failed", "pending"}, TRUE)
        ELSE SyncPosition(c0)

\* what the broker may answer to the cancel requests for ids: it cancels
\* only an order that is pending in its book
CancelAnswers(c, ids) ==
    {f \in [ids -> CancelOutcomes] :
        \A id \in ids : f[id] = "canceled" => c.orders[id] = "pending"}

CancelNone(c, ids, outcomes) == c

\* cancel_order for every id of ids, each with its own outcome: the tracking
\* of an order is dropped unless the broker call raised
CancelAll(c, ids, outcomes) ==
    LET dropped == {id \in ids : outcomes[id] # "raises"}
    IN  [c EXCEPT !.pending = Without(c.pending, dropped),
                  !.orders = [id \in DOMAIN c.orders |->
                                IF id \in ids /\ outcomes[id] = "canceled"
                                THEN "canceled" ELSE c.orders[id]],
                  !.stamps = Without(c.stamps, dropped),
                  !.obs.cancel_raised = c.obs.cancel_raised \cup (ids \ dropped)]

\* _process_long_short_signals
\* a long/short processing that reverses the position with one larger order
LtProcessLongShortReversing(c) ==
    LET current_qty == c.obs.current_qty
        has_pending_buy == HasPending(c.pending, lt_symbol, "buy")
        has_pending_sell == HasPending(c.pending, lt_symbol, "sell")
        opposite == IF c.obs.buy THEN "sell" ELSE IF c.obs.sell THEN "buy" ELSE "none"
        orders_to_cancel ==
            {id \in DOMAIN c.pending :
                c.pending[id].symbol = lt_symbol /\ c.pending[id].side = opposite}
    IN  \E outcomes \in CancelAnswers(c, orders_to_cancel) :
        LET c0 == [CancelAll(c, orders_to_cancel, outcomes)
                        EXCEPT !.obs.pending_buy = has_pending_buy]
        IN  IF c.obs.buy
            THEN IF current_qty[1] < 0
                 THEN SendOrder(c0, "buy", "buy_long", RAdd(RNeg(current_qty), R(1)),
                                {"failed"}, FALSE)
                 ELSE IF current_qty = R(0) /\ ~has_pending_buy
                 THEN ConfirmAndSend(c0, "BUY", "buy", "buy_long")
                 ELSE SyncPosition(c0)
            ELSE IF c.obs.sell
            THEN IF RPos(current_qty)
                 THEN SendOrder(c0, "sell", "sell_short", RAdd(current_qty, R(1)),
                                {"failed"}, FALSE)
                 ELSE IF current_qty = R(0) /\ ~has_pending_sell
                 THEN ConfirmAndSend(c0, "SELL", "sell", "sell_short")
                 ELSE SyncPosition(c0)
            ELSE SyncPosition(c0)

LtProcessLongShortSignals(c) ==
    LET current_qty == c.obs.current_qty
        has_pending_buy == HasPending(c.pending, lt_symbol, "buy")
        has_pending_sell == HasPending(c.pending, lt_symbol, "sell")
        opposite == IF c.obs.buy THEN "sell" ELSE IF c.obs.sell THEN "buy" ELSE "none"
        orders_to_cancel ==
            {id \in DOMAIN c.pending :
                c.pending[id].symbol = lt_symbol /\ c.pending[id].side = opposite}
    IN  \E outcomes \in CancelAnswers(c, orders_to_cancel) :
        LET c0 == [CancelAll(c, orders_to_cancel, outcomes)
                        EXCEPT !.obs.pending_buy = has_pending_buy]
        IN  IF c.obs.buy
            THEN IF current_qty[1] < 0
                 THEN SendOrder(c0, "close", "close_short", RNeg(current_qty),
                                {"failed"}, FALSE)
                 ELSE IF current_qty = R(0) /\ ~has_pending_buy
                 THEN ConfirmAndSend(c0, "BUY", "buy", "buy_long")
                 ELSE SyncPosition(c0)
            ELSE IF c.obs.sell
            THEN IF RPos(current_qty)
                 THEN SendOrder(c0, "close", "close_long", current_qty,
                                {"failed"}, FALSE)
                 ELSE IF current_qty = R(0) /\ ~has_pending_sell
                 THEN ConfirmAndSend(c0, "SELL", "sell", "sell_short")
                 ELSE SyncPosition(c0)
            ELSE SyncPosition(c0)

QueryValidateProcessCached(c) ==
    \E p \in PosOutcomes, validation \in Validations :
        LET signals_valid == ValidateSignals(validation, c.obs.buy, c.obs.sell)
            c1 == [c EXCEPT !.obs.pos_outcome = p,
                            !.obs.current_qty = R(c.position),
                            !.obs.validated = TRUE,
                            !.obs.validation = validation,
                            !.obs.valid = signals_valid]
        IN  IF ~signals_valid THEN AfterProcess(c1)
            ELSE IF lt_trading_mode = "long_only" THEN LtProcessLongOnlySignals(c1)
            ELSE LtProcessLongShortSignals(c1)

\* process_signals from line 326: the position query, the validation, then
\* the processing of the trading mode
QueryValidateProcess(c) ==
    \E p \in PosOutcomes, validation \in Validations :
        LET signals_valid == ValidateSignals(validation, c.obs.buy, c.obs.sell)
            c1 == [c EXCEPT !.obs.pos_outcome = p,
                            !.obs.current_qty = GetAlpacaPosition(p, c.br_qty),
                            !.obs.validated = TRUE,
                            !.obs.validation = validation,
                            !.obs.valid = signals_valid]
        IN  IF ~signals_valid THEN AfterProcess(c1)
            ELSE IF lt_trading_mode = "long_only" THEN LtProcessLongOnlySignals(c1)
            ELSE LtProcessLongShortSignals(c1)

\* the timeout process_signals passes to check_and_cancel_expired_orders
timeout_minutes == 1

CancelExpiredNever(c) == QueryValidateProcess(c)

\* check_and_cancel_expired_orders(symbol, timeout_minutes = 1), long-only
CancelExpired(c) ==
    LET expired_orders ==
            {id \in DOMAIN c.stamps :
                /\ id \in DOMAIN c.pending
                /\ c.pending[id].symbol = lt_symbol
                /\ now - c.stamps[id] >= timeout_minutes}
    IN  IF lt_trading_mode = "long_only"
        THEN \E outcomes \in CancelAnswers(c, expired_orders) :
                QueryValidateProcess(CancelAll(c, expired_orders, outcomes))
        ELSE QueryValidateProcess(c)

\* process_signals up to line 314: the signals and the quantity
ProcessSignals(row) ==
    LET c == StartOfCall(row)
    IN  \E generate_signals \in {"ok", "raises"} :
        IF generate_signals = "raises" THEN BodyFinish(c, "process_signals")
        ELSE IF rs_quantity # NoQuantity
        THEN CancelExpired([c EXCEPT !.obs.quantity = rs_quantity])
        ELSE \E a \in AcctOutcomes : \E snap \in SnapsFor(c, a) :
                LET account_info == GetAlpacaAccount(a, snap)
                    account_balance == DictGet(account_info, "equity", lt_initial_balance)
                IN  IF ~RPos(account_balance)
                    THEN AfterProcess([c EXCEPT !.obs.snap = snap])
                    ELSE CancelExpired(
                            [c EXCEPT !.obs.snap = snap, !.obs.quantity =
                                ComputeQuantity(account_balance, row.Close)])

\* run_strategy: self.running = True; iteration = 0
RunStrategy ==
    /\ rs_pc = "idle"
    /\ rs_pc' = "top"
    /\ running' = TRUE
    /\ iteration' = 0
    /\ UNCHANGED <<ltcfg, lt_position, lt_entry_price, lt_trades, lt_current_balance,
                   pending_orders, order_timestamps, max_iterations, rs_quantity,
                   br_qty, br_orders, br_next_id, now, call, exit_cause, btvars, sbvars>>

LoopTopWithoutLimit ==
    /\ rs_pc = "top"
    /\ IF ~running THEN rs_pc' = "done" /\ exit_cause' = "stopped"
       ELSE iteration < MaxIter /\ rs_pc' = "body" /\ exit_cause' = exit_cause
    /\ call' = NoCall
    /\ UNCHANGED <<ltcfg, lt_position, lt_entry_price, lt_trades, running,
                   lt_current_balance, pending_orders, order_timestamps, iteration,
                   max_iterations, rs_quantity, br_qty, br_orders,
                   br_next_id, now, btvars, sbvars>>

\* "while self.running:" and the max_iterations check (a new iteration
\* starts with nothing remembered of the latest call)
LoopTop ==
    /\ rs_pc = "top"
    /\ IF ~running THEN rs_pc' = "done" /\ exit_cause' = "stopped"
       ELSE IF max_iterations # 0 /\ iteration >= max_iterations
       THEN rs_pc' = "done" /\ exit_cause' = "max_iterations"
       ELSE iteration < MaxIter /\ rs_pc' = "body" /\ exit_cause' = exit_cause
    /\ call' = NoCall
    /\ UNCHANGED <<ltcfg, lt_position, lt_entry_price, lt_trades, running,
                   lt_current_balance, pending_orders, order_timestamps, iteration,
                   max_iterations, rs_quantity, br_qty, br_orders,
                   br_next_id, now, btvars, sbvars>>

\* the try block of one iteration: get_live_data, then process_signals
IterationBody ==
    /\ rs_pc = "body"
    /\ \E get_live_data \in {"ok", "empty", "raises"} :
        IF get_live_data = "raises"
        THEN BodyFinish(StartOfCall([Close |-> R(0), buy |-> FALSE, sell |-> FALSE]),
                        "get_live_data")
        ELSE IF get_live_data = "empty"
        THEN AfterProcess([StartOfCall([Close |-> R(0), buy |-> FALSE, sell |-> FALSE])
                                EXCEPT !.obs.empty = TRUE])
        ELSE \E row \in LiveRows : ProcessSignals(row)
    /\ UNCHANGED <<btvars, sbvars>>

\* the try block, continued: _display_trading_stats / _display_quiet_stats
DisplayStats ==
    /\ rs_pc = "display"
    /\ \E display \in {"ok", "raises"} :
        /\ AfterStep(IF display = "raises" THEN "display" ELSE "none", "chart")
        /\ call' = [NoCall EXCEPT !.n = call.n, !.empty = call.empty,
                                  !.exc = IF display = "raises" THEN "display" ELSE "none"]
    /\ UNCHANGED <<ltcfg, lt_position, lt_entry_price, lt_trades, running,
                   lt_current_balance, pending_orders, order_timestamps, iteration,
                   max_iterations, rs_quantity, br_qty, br_orders,
                   br_next_id, now, btvars, sbvars>>

\* the try block, continued: chart_callback(), when one was given; the
\* callback may raise, and it may call stop()
ChartCallback ==
    /\ rs_pc = "chart"
    /\ \E chart_callback \in {"none", "raises", "stops"} :
        /\ AfterStep(IF chart_callback = "raises" THEN "chart_callback" ELSE "none", "inc")
        /\ call' = [call EXCEPT !.exc = IF chart_callback = "raises"
                                        THEN "chart_callback" ELSE "none"]
        /\ running' = IF chart_callback = "stops" THEN FALSE ELSE running
    /\ UNCHANGED <<ltcfg, lt_position, lt_entry_price, lt_trades,
                   lt_current_balance, pending_orders, order_timestamps, iteration,
                   max_iterations, rs_quantity, br_qty, br_orders,
                   br_next_id, now, btvars, sbvars>>

IncrementAlwaysSleeps ==
    /\ rs_pc = "inc"
    /\ iteration' = iteration + 1
    /\ rs_pc' = "sleep"
    /\ call' = [NoCall EXCEPT !.n = call.n, !.exc = call.exc]
    /\ UNCHANGED <<ltcfg, lt_position, lt_entry_price, lt_trades, running,
                   lt_current_balance, pending_orders, order_timestamps,
                   max_iterations, rs_quantity, br_qty, br_orders,
                   br_next_id, now,
                   exit_cause, btvars, sbvars>>

\* iteration += 1; sleep only while still running (of the latest call only
\* its number and the place that raised are remembered from here on)
Increment ==
    /\ rs_pc = "inc"
    /\ iteration' = iteration + 1
    /\ rs_pc' = IF running THEN "sleep" ELSE "top"
    /\ call' = [NoCall EXCEPT !.n = call.n, !.exc = call.exc]
    /\ UNCHANGED <<ltcfg, lt_position, lt_entry_price, lt_trades, running,
                   lt_current_balance, pending_orders, order_timestamps,
                   max_iterations, rs_quantity, br_qty, br_orders,
                   br_next_id, now,
                   exit_cause, btvars, sbvars>>

\* time.sleep(sleep_interval): less than a minute, or a minute; the clock
\* is followed up to the order timeout, past which every tracked order
\* is expired whatever the time
Sleep ==
    /\ rs_pc = "sleep"
    /\ \E minutes \in {0, 1} : now' = IF now + minutes > timeout_minutes
                                     THEN timeout_minutes ELSE now + minutes
    /\ rs_pc' = "top"
    /\ UNCHANGED <<ltcfg, lt_position, lt_entry_price, lt_trades, running,
                   lt_current_balance, pending_orders, order_timestamps, iteration,
                   max_iterations, rs_quantity, br_qty, br_orders,
                   br_next_id, call,
                   exit_cause, btvars, sbvars>>

KeyboardInterruptWithoutStop ==
    /\ rs_pc \in {"body", "sleep"}
    /\ rs_pc' = "done"
    /\ exit_cause' = "keyboard_interrupt"
    /\ UNCHANGED <<ltcfg, lt_position, lt_entry_price, lt_trades, running,
                   lt_current_balance, pending_orders, order_timestamps, iteration,
                   max_iterations, rs_quantity, br_qty, br_orders,
                   br_next_id, now, call, btvars, sbvars>>

\* KeyboardInterrupt while the loop waits in a blocking call (the fetch of
\* the iteration, or the sleep): the handler calls stop()
KeyboardInterrupt ==
    /\ rs_pc \in {"body", "sleep"}
    /\ running' = FALSE
    /\ rs_pc' = "done"
    /\ exit_cause' = "keyboard_interrupt"
    /\ UNCHANGED <<ltcfg, lt_position, lt_entry_price, lt_trades,
                   lt_current_balance, pending_orders, order_timestamps, iteration,
                   max_iterations, rs_quantity, br_qty, br_orders,
                   br_next_id, now, call, btvars, sbvars>>

\* stop() called from outside the loop (stop_trading of the chart), at any
\* moment of a run
Stop ==
    /\ rs_pc \in {"top", "body", "display", "chart", "inc", "sleep"}
    /\ running
    /\ running' = FALSE
    /\ UNCHANGED <<ltcfg, lt_position, lt_entry_price, lt_trades,
                   lt_current_balance, pending_orders, order_timestamps, rs_pc,
                   iteration, max_iterations, rs_quantity, br_qty, br_orders,
                   br_next_id, now,
                   call, exit_cause, btvars, sbvars>>

\* execute_buy_order / execute_sell_order with order_type = "limit", called
\* on the engine directly: the order is tracked when the result has an id
ExecuteLimitOrder(sym, side) ==
    /\ rs_pc = "idle"
    /\ br_next_id < MaxOrders
    /\ \E outcome \in OrderOutcomes :
        LET id == br_next_id + 1
            has_id == outcome \in {"filled", "pending"}
        IN  /\ br_next_id' = IF has_id THEN id ELSE br_next_id
            /\ pending_orders' =
                  IF has_id
                  THEN [k \in DOMAIN pending_orders \cup {id} |->
                          IF k = id THEN [symbol |-> sym, side |-> side, quantity |-> R(1)]
                          ELSE pending_orders[k]]
                  ELSE pending_orders
            /\ order_timestamps' =
                  IF has_id
                  THEN [k \in DOMAIN order_timestamps \cup {id} |->
                          IF k = id THEN now ELSE order_timestamps[k]]
                  ELSE order_timestamps
            /\ br_qty' = IF sym = lt_symbol
                         THEN BrokerAfter(br_qty, side, R(1), outcome) ELSE br_qty
            /\ br_orders' =
                  IF has_id
                  THEN [k \in DOMAIN br_orders \cup {id} |->
                          IF k = id THEN outcome ELSE br_orders[k]]
                  ELSE br_orders
    /\ UNCHANGED <<ltcfg, lt_position, lt_entry_price, lt_trades, running,
                   lt_current_balance, rs_pc, iteration, max_iterations,
                   rs_quantity, now, call, exit_cause, btvars, sbvars>>

\* forex engines with a spread of 10 in price units (100000 pips of 0.0001,
\* 1000 pips of 0.01)
ForexConfigs ==
    [initial_balance : {10000},
     trading_mode : {"long_only", "long_short"},
     position_percentage : {100},
     symbol : {"C:EURUSD"},
     spread_pips : {R(100000)}]
    \cup
    [initial_balance : {10000},
     trading_mode : {"long_only", "long_short"},
     position_percentage : {100},
     symbol : {"C:USDJPY"},
     spread_pips : {R(1000)}]

\* BacktestEngine(...) with the arguments of one of the configurations
BtInitFrom(configurations) ==
    /\ \E c \in configurations :
        /\ initial_balance = c.initial_balance
        /\ trading_mode = c.trading_mode
        /\ position_percentage = Rat(c.position_percentage, 100)
        /\ symbol = c.symbol
        /\ spread_pips = c.spread_pips
        /\ position = 0
        /\ entry_price = R(0)
        /\ realized_gains = R(0)
        /\ trades = <<>>
        /\ current_balance = R(c.initial_balance)
        /\ shares_held = R(0)
    /\ bt_pc = "idle"
    /\ df = <<>>
    /\ replay = NoFrame
    /\ runs = 0
    /\ prev_trades = <<>>
    /\ analysis = [raised |-> FALSE, none |-> TRUE]

BtInit == BtInitFrom(Configs)

\* LiveTradingEngine(data_provider, broker, initial_balance, trading_mode,
\* position_percentage) and the arguments of run_strategy
LiveConfigs ==
    [trading_mode : {"long_only", "long_short"},
     quantity : {NoQuantity, R(1)},
     max_iterations : {0, 1}]

LtInitWith(c) ==
    /\ lt_initial_balance = R(300)
    /\ lt_trading_mode = c.trading_mode
    /\ lt_position_percentage = R(1)
    /\ lt_symbol = "AAPL"
    /\ lt_position = 0
    /\ lt_entry_price = R(0)
    /\ lt_trades = <<>>
    /\ running = FALSE
    /\ lt_current_balance = R(300)
    /\ pending_orders = <<>>
    /\ order_timestamps = <<>>
    /\ rs_pc = "idle"
    /\ iteration = 0
    /\ max_iterations = c.max_iterations
    /\ rs_quantity = c.quantity
    /\ br_qty = R(0)
    /\ br_orders = <<>>
    /\ br_next_id = 0
    /\ now = 0
    /\ call = NoCall
    /\ exit_cause = "none"

LtInit == \E c \in LiveConfigs : LtInitWith(c)

\* the live engine constructed and left alone
LtIdle == LtInitWith([trading_mode |-> "long_only", quantity |-> R(1), max_iterations |-> 1])

------------------------------------------------------------------------------
(* SimulatedBroker (data_providers/alpaca_provider.py) *)

\* orders one broker instance is given: market orders only, and of any type
MaxFills == 3
MaxLimitOrders == 2

SbSymbols == {"AAPL", "BTC/USD"}

\* symbol.replace('/', '') if '/' in symbol else symbol
StorageSymbol(sym) == IF sym = "BTC/USD" THEN "BTCUSD" ELSE sym

\* limit_price = None
NoLimit == <<0, 0>>

SbLimitPrices == {R(105)}

\* (order_type, limit_price) of a buy / sell call
SbOrderTypes == {<<"market", NoLimit>>} \cup {<<"limit", l>> : l \in SbLimitPrices}

SbQuantities == {R(1), R(2)}

\* get_current_price: the latest close, 0 when the lookup failed
SbPrices == {R(0), R(100), R(110)}

SbInitialBalance == R(250)

RAbs(a) == IF a[1] < 0 THEN RNeg(a) ELSE a

\* reset_account()
SbIdle ==
    /\ cash_balance = SbInitialBalance
    /\ positions = <<>>
    /\ trade_history = <<>>
    /\ order_counter = 1
    /\ orders = <<>>

\* the account state the _execute_* methods read and write
Account ==
    [cash_balance |-> cash_balance, positions |-> positions,
     trade_history |-> trade_history]

SetPosition(a, sym, pos) ==
    [s \in (DOMAIN a.positions) \cup {sym} |-> IF s = sym THEN pos ELSE a.positions[s]]

\* a buy that overwrites the entry price with the fill price when adding
ExecuteBuyLastPrice(a, sym, quantity, price, order_id) ==
    LET existing_qty == a.positions[sym].qty
        remaining_qty == RSub(quantity, RAbs(existing_qty))
        pos == IF sym \in DOMAIN a.positions
               THEN IF RLt(existing_qty, R(0))
                    THEN IF RGe(quantity, RAbs(existing_qty))
                         THEN [qty |-> remaining_qty, avg_entry_price |-> price,
                               side |-> IF RPos(remaining_qty) THEN "long" ELSE "flat"]
                         ELSE [a.positions[sym] EXCEPT !.qty = RAdd(existing_qty, quantity)]
                    ELSE [qty |-> RAdd(existing_qty, quantity), avg_entry_price |-> price,
                          side |-> "long"]
               ELSE [qty |-> quantity, avg_entry_price |-> price, side |-> "long"]
    IN  [cash_balance |-> RSub(a.cash_balance, RMul(quantity, price)),
         positions |-> SetPosition(a, sym, pos),
         trade_history |-> Append(a.trade_history,
                                  [order_id |-> order_id, symbol |-> sym, side |-> "buy",
                                   qty |-> quantity, price |-> price])]

\* _execute_buy
ExecuteBuy(a, sym, quantity, price, order_id) ==
    LET trade_value == RMul(quantity, price)
        existing_qty == a.positions[sym].qty
        existing_avg == a.positions[sym].avg_entry_price
        remaining_qty == RSub(quantity, RAbs(existing_qty))
        total_qty == RAdd(existing_qty, quantity)
        new_avg == RDiv(RAdd(RMul(existing_qty, existing_avg), RMul(quantity, price)),
                        total_qty)
        pos == IF sym \in DOMAIN a.positions
               THEN IF RLt(existing_qty, R(0))
                    THEN IF RGe(quantity, RAbs(existing_qty))
                         THEN [qty |-> remaining_qty, avg_entry_price |-> price,
                               side |-> IF RPos(remaining_qty) THEN "long" ELSE "flat"]
                         ELSE [a.positions[sym] EXCEPT !.qty = RAdd(existing_qty, quantity)]
                    ELSE [qty |-> total_qty, avg_entry_price |-> new_avg, side |-> "long"]
               ELSE [qty |-> quantity, avg_entry_price |-> price, side |-> "long"]
    IN  [cash_balance |-> RSub(a.cash_balance, trade_value),
         positions |-> SetPosition(a, sym, pos),
         trade_history |-> Append(a.trade_history,
                                  [order_id |-> order_id, symbol |-> sym, side |-> "buy",
                                   qty |-> quantity, price |-> price])]

\* _execute_sell
ExecuteSell(a, sym, quantity, price, order_id) ==
    LET trade_value == RMul(quantity, price)
        existing_qty == a.positions[sym].qty
        existing_avg == a.positions[sym].avg_entry_price
        remaining_qty == RSub(quantity, existing_qty)
        total_qty == RAdd(RAbs(existing_qty), quantity)
        new_avg == RDiv(RAdd(RMul(RAbs(existing_qty), existing_avg), RMul(quantity, price)),
                        total_qty)
        pos == IF sym \in DOMAIN a.positions
               THEN IF RGt(existing_qty, R(0))
                    THEN IF RGe(quantity, existing_qty)
                         THEN [qty |-> RNeg(remaining_qty), avg_entry_price |-> price,
                               side |-> IF RPos(remaining_qty) THEN "short" ELSE "flat"]
                         ELSE [a.positions[sym] EXCEPT !.qty = RSub(existing_qty, quantity)]
                    ELSE [qty |-> RNeg(total_qty), avg_entry_price |-> new_avg,
                          side |-> "short"]
               ELSE [qty |-> RNeg(quantity), avg_entry_price |-> price, side |-> "short"]
    IN  [cash_balance |-> RAdd(a.cash_balance, trade_value),
         positions |-> SetPosition(a, sym, pos),
         trade_history |-> Append(a.trade_history,
                                  [order_id |-> order_id, symbol |-> sym, side |-> "sell",
                                   qty |-> quantity, price |-> price])]

SetAccount(a) ==
    /\ cash_balance' = a.cash_balance
    /\ positions' = a.positions
    /\ trade_history' = a.trade_history

\* the order stored as pending, under the symbol as it was passed
StorePending(sym, quantity, side, limit_price) ==
    orders' = [k \in (DOMAIN orders) \cup {order_counter} |->
                  IF k = order_counter
                  THEN [id |-> order_counter, symbol |-> sym, qty |-> quantity,
                        side |-> side, limit_price |-> limit_price,
                        status |-> "pending"]
                  ELSE orders[k]]

\* buy(symbol, quantity, order_type, limit_price): the order id is taken
\* first; no price fails the order; a limit above which the price stands is
\* stored as pending; too little cash fails the order
SbBuy(sym, quantity, order_type, limit_price, current_price) ==
    LET storage_symbol == StorageSymbol(sym)
        is_limit == order_type = "limit" /\ limit_price # NoLimit
        execution_price == IF is_limit THEN limit_price ELSE current_price
    IN  /\ order_counter' = order_counter + 1
        /\ IF RLe(current_price, R(0))
           THEN UNCHANGED <<cash_balance, positions, trade_history, orders>>
           ELSE IF is_limit /\ RGt(current_price, limit_price)
           THEN /\ StorePending(sym, quantity, "buy", limit_price)
                /\ UNCHANGED <<cash_balance, positions, trade_history>>
           ELSE IF RGt(RMul(quantity, execution_price), cash_balance)
           THEN UNCHANGED <<cash_balance, positions, trade_history, orders>>
           ELSE /\ SetAccount(ExecuteBuy(Account, storage_symbol, quantity,
                                         execution_price, order_counter))
                /\ UNCHANGED orders
        /\ UNCHANGED <<btvars, ltvars>>

\* sell(symbol, quantity, order_type, limit_price): no cash or holding test
SbSell(sym, quantity, order_type, limit_price, current_price) ==
    LET storage_symbol == StorageSymbol(sym)
        is_limit == order_type = "limit" /\ limit_price # NoLimit
        execution_price == IF is_limit THEN limit_price ELSE current_price
    IN  /\ order_counter' = order_counter + 1
        /\ IF RLe(current_price, R(0))
           THEN UNCHANGED <<cash_balance, positions, trade_history, orders>>
           ELSE IF is_limit /\ RLt(current_price, limit_price)
           THEN /\ StorePending(sym, quantity, "sell", limit_price)
                /\ UNCHANGED <<cash_balance, positions, trade_history>>
           ELSE /\ SetAccount(ExecuteSell(Account, storage_symbol, quantity,
                                          execution_price, order_counter))
                /\ UNCHANGED orders
        /\ UNCHANGED <<btvars, ltvars>>

\* close_position(symbol): a market sell or buy of the whole holding found
\* under the symbol without '/'
SbClosePosition(sym, current_price) ==
    LET symbol_ == StorageSymbol(sym)
    IN  /\ symbol_ \in DOMAIN positions
        /\ positions[symbol_].qty # R(0)
        /\ IF RPos(positions[symbol_].qty)
           THEN SbSell(symbol_, positions[symbol_].qty, "market", NoLimit, current_price)
           ELSE SbBuy(symbol_, RAbs(positions[symbol_].qty), "market", NoLimit,
                      current_price)

\* cancel_order(order_id) of a pending order
SbCancelOrder(order_id) ==
    /\ order_id \in DOMAIN orders
    /\ orders[order_id].status = "pending"
    /\ orders' = [k \in (DOMAIN orders) \ {order_id} |-> orders[k]]
    /\ UNCHANGED <<cash_balance, positions, trade_history, order_counter, btvars, ltvars>>

\* "should_fill" of check_pending_orders
ShouldFill(order, current_price) ==
    \/ order.side = "buy" /\ RLe(current_price, order.limit_price)
    \/ order.side = "sell" /\ RGe(current_price, order.limit_price)

\* the loop of check_pending_orders over the orders ids, in the order of
\* their creation; price_of: the price found for each order's symbol
RECURSIVE FillPending(_, _, _)
FillPending(a, ids, price_of) ==
    IF ids = {} THEN a
    ELSE LET order_id == CHOOSE i \in ids : \A k \in ids : i <= k
             order == orders[order_id]
             a1 == IF ~ShouldFill(order, price_of[order_id]) THEN a
                   ELSE IF order.side = "buy"
                   THEN ExecuteBuy(a, order.symbol, order.qty, order.limit_price, order_id)
                   ELSE ExecuteSell(a, order.symbol, order.qty, order.limit_price, order_id)
         IN  FillPending(a1, ids \ {order_id}, price_of)

\* check_pending_orders(): pending orders whose limit the price has reached
\* are executed at the limit price and removed
SbCheckPendingOrders ==
    /\ DOMAIN orders # {}
    /\ \E price_of \in [DOMAIN orders -> SbPrices] :
        LET filled_orders == {k \in DOMAIN orders : ShouldFill(orders[k], price_of[k])}
        IN  /\ SetAccount(FillPending(Account, DOMAIN orders, price_of))
            /\ orders' = [k \in (DOMAIN orders) \ filled_orders |-> orders[k]]
    /\ UNCHANGED <<order_counter, btvars, ltvars>>

\* get_position_for_symbol(symbol): quantity, entry price and side
GetPositionForSymbol(pos, sym) ==
    LET storage_symbol == StorageSymbol(sym)
    IN  IF storage_symbol \notin DOMAIN pos
        THEN [qty |-> R(0), avg_entry_price |-> R(0), side |-> "long"]
        ELSE pos[storage_symbol]

\* the backtest engine constructed and left alone
BtIdle ==
    /\ BtInit
    /\ trading_mode = "long_only" /\ position_percentage = R(1)

Init == BtInit /\ LtIdle /\ SbIdle

\* one backtest() call on a new engine, then analyze_results
Next ==
    \/ Backtest(FALSE)
    \/ \E row \in Rows : Bar(row, MaxBars)
    \/ Return
    \/ Analyze

Spec == Init /\ [][Next]_vars

\* backtest() called again on the same engine with the same frame
NextRerun ==
    \/ Backtest(FALSE)
    \/ Backtest(TRUE)
    \/ \E row \in Rows : Bar(row, MaxBarsRerun)
    \/ Return

SpecRerun == Init /\ [][NextRerun]_vars

InitForex == BtInitFrom(ForexConfigs) /\ LtIdle /\ SbIdle

\* one backtest() call on a forex engine with a spread, then analyze_results
SpecForex == InitForex /\ [][Next]_vars

\* long-only forex engines whose spread (50 and 100 in price units) reaches
\* the close of some bars, so that the bid price is zero or negative there
WideSpreadConfigs ==
    [initial_balance : {10000},
     trading_mode : {"long_only"},
     position_percentage : {100},
     symbol : {"C:USDJPY"},
     spread_pips : {R(5000), R(10000)}]

InitWideSpread == BtInitFrom(WideSpreadConfigs) /\ LtIdle /\ SbIdle

\* one backtest() call on such an engine, then analyze_results
SpecWideSpread == InitWideSpread /\ [][Next]_vars

InitLive == LtInit /\ BtIdle /\ SbIdle

\* the live engine: run_strategy, the operator's stop and interrupt, and
\* limit orders placed on the engine directly
NextLive ==
    \/ RunStrategy
    \/ LoopTop
    \/ IterationBody
    \/ DisplayStats
    \/ ChartCallback
    \/ Increment
    \/ Sleep
    \/ KeyboardInterrupt
    \/ Stop
    \/ \E o \in LimitOrders : ExecuteLimitOrder(o[1], o[2])

SpecLive == InitLive /\ [][NextLive]_vars

\* the simulated broker alone
InitBroker == BtIdle /\ LtIdle /\ SbIdle

\* market orders
NextBroker ==
    \/ /\ order_counter <= MaxFills
       /\ \E sym \in SbSymbols, q \in SbQuantities, p \in SbPrices :
             SbBuy(sym, q, "market", NoLimit, p)
    \/ /\ order_counter <= MaxFills
       /\ \E sym \in SbSymbols, q \in SbQuantities, p \in SbPrices :
             SbSell(sym, q, "market", NoLimit, p)
    \/ /\ order_counter <= MaxFills
       /\ \E sym \in SbSymbols, p \in SbPrices : SbClosePosition(sym, p)

SpecBroker == InitBroker /\ [][NextBroker]_vars

\* market and limit orders, cancellations and later fills
NextBrokerOrders ==
    \/ /\ order_counter <= MaxLimitOrders
       /\ \E sym \in SbSymbols, q \in SbQuantities, t \in SbOrderTypes, p \in SbPrices :
             SbBuy(sym, q, t[1], t[2], p)
    \/ /\ order_counter <= MaxLimitOrders
       /\ \E sym \in SbSymbols, q \in SbQuantities, t \in SbOrderTypes, p \in SbPrices :
             SbSell(sym, q, t[1], t[2], p)
    \/ /\ order_counter <= MaxLimitOrders
       /\ \E sym \in SbSymbols, p \in SbPrices : SbClosePosition(sym, p)
    \/ \E order_id \in 1..MaxLimitOrders : SbCancelOrder(order_id)
    \/ SbCheckPendingOrders

SpecBrokerOrders == InitBroker /\ [][NextBrokerOrders]_vars

-----------------------------------------------------------------------------
(* Properties of the backtest engine *)

IsOpen(t) == t.Action \in {"BUY", "SELL_SHORT"}
IsClose(t) == t.Action \in {"CLOSE", "CLOSE_LONG", "CLOSE_SHORT"}
Prefix(s, k) == SubSeq(s, 1, k)

\* C1: every trade record has Total_Account_Worth = initial_balance + the sum
\* of Profit over the closing records up to and including it, and
\* Total_Profit = Total_Account_Worth - initial_balance; an opening record
\* carries the Total_Account_Worth of the record before it (initial_balance
\* when it is the first).
C1_RealizedOnlyWorth ==
    \A k \in DOMAIN trades :
        LET t == trades[k]
        IN  /\ t.Total_Account_Worth =
                    RAdd(R(initial_balance), SumProfit(Prefix(trades, k)))
            /\ t.Total_Profit = RSub(t.Total_Account_Worth, R(initial_balance))
            /\ IsOpen(t) =>
                    t.Total_Account_Worth =
                        IF k = 1 THEN R(initial_balance)
                        ELSE trades[k - 1].Total_Account_Worth

\* an open recorded after a close with a non-zero profit, at a price other
\* than the one of the close before it
C1_Witness ==
    /\ Len(trades) >= 3
    /\ IsClose(trades[2]) /\ trades[2].Profit # R(0)
    /\ IsOpen(trades[3]) /\ trades[3].Price # trades[2].Price
    /\ trades[3].Balance # trades[3].Total_Account_Worth

BuysWithIndex(S) ==
    Cardinality({k \in DOMAIN trades : trades[k].Action = "BUY" /\ trades[k].Index \in S})

\* C2: in long-only mode the records alternate BUY, CLOSE, BUY, ...: no BUY
\* is recorded while the position is long, and two consecutive buy bars with
\* no sell between them produce at most one BUY (exactly one when the engine
\* was flat with funds at the first of them).
C2_NoDoublePosition ==
    trading_mode = "long_only" =>
        /\ \A k \in DOMAIN trades :
              trades[k].Action = (IF k % 2 = 1 THEN "BUY" ELSE "CLOSE")
        /\ position = (IF Len(trades) % 2 = 1 THEN 1 ELSE 0)
        /\ \A j \in 2..(Len(df) - 1) :
              (df[j].buy /\ df[j + 1].buy /\ ~df[j].sell /\ ~df[j + 1].sell)
                  => BuysWithIndex({j - 1, j}) <= 1

\* two consecutive buy bars, the first of which opened the position
C2_Witness ==
    /\ trading_mode = "long_only"
    /\ Len(df) = 3
    /\ df[2].buy /\ df[3].buy /\ ~df[2].sell /\ ~df[3].sell
    /\ Len(trades) = 1 /\ trades[1].Action = "BUY" /\ trades[1].Index = 1

Scenario_LongRoundTrip ==
    /\ initial_balance = 10000
    /\ position_percentage = R(1)
    /\ Len(trades) >= 2
    /\ trades[1].Action = "BUY" /\ trades[1].Price = R(100)
    /\ trades[2].Action \in {"CLOSE", "CLOSE_LONG"} /\ trades[2].Price = R(110)
    /\ \A k \in DOMAIN trades : k > 2 => ~IsClose(trades[k])

\* C3: without spread every closing record follows the record that opened the
\* position, closes the quantity q that record opened, and has
\* Profit = (p2 - p1) * q for a long and (p1 - p2) * q for a short;
\* realized_gains is the sum of these profits.  With initial_balance 10000
\* and 100 percent, buy at 100 then sell at 110 is one completed trade with
\* profit 1000, final account worth 11000 and winrate 100.
C3_RoundTripAccounting ==
    spread_pips = R(0) =>
        /\ \A k \in DOMAIN trades :
              IsClose(trades[k]) =>
                  /\ k > 1
                  /\ trades[k - 1].Action =
                        (IF trades[k].Action = "CLOSE_SHORT" THEN "SELL_SHORT" ELSE "BUY")
                  /\ trades[k].Shares = trades[k - 1].Shares
                  /\ LET p1 == trades[k - 1].Price
                         p2 == trades[k].Price
                         q == trades[k - 1].Shares
                     IN  trades[k].Profit =
                            IF trades[k].Action = "CLOSE_SHORT"
                            THEN RMul(RSub(p1, p2), q)
                            ELSE RMul(RSub(p2, p1), q)
        /\ realized_gains = SumProfit(trades)
        /\ (bt_pc = "analyzed" /\ Scenario_LongRoundTrip) =>
              /\ trades[2].Profit = R(1000)
              /\ ~analysis.raised
              /\ analysis.num_trades = 1
              /\ analysis.final_balance = R(11000)
              /\ analysis.winrate = R(100)

\* the scenario of the specification: the sell comes two bars after the buy
C3_Witness ==
    /\ bt_pc = "analyzed"
    /\ Scenario_LongRoundTrip
    /\ trades[1].Index = 1 /\ trades[2].Index = 3
    /\ ~df[3].buy /\ ~df[3].sell

\* C4: the final_balance analyze_results returns for the trade list of a run
\* is initial_balance + the sum of Profit over the closing records, also
\* when the last record is an open and when there is no closing record.
C4_FinalBalanceRealizedOnly ==
    bt_pc = "analyzed" =>
        /\ ~analysis.raised
        /\ analysis.final_balance = RAdd(R(initial_balance), SumProfit(trades))

\* C5: a backtest() call made on an engine that already ran returns the trade
\* records the earlier call returned for the same rows.
C5_Deterministic ==
    (runs >= 2 /\ bt_pc = "done") => trades = prev_trades

\* the second run is over: the first one had left an open position,
\* realized gains and a changed cash balance behind
C5_Witness ==
    /\ runs = 2 /\ bt_pc = "done"
    /\ Len(prev_trades) >= 3
    /\ position # 0
    /\ realized_gains # R(0)
    /\ current_balance # R(initial_balance)

\* a step of the loop that processes a row in long/short mode
IsLongShortBar ==
    /\ bt_pc = "loop"
    /\ trading_mode = "long_short"
    /\ Len(df) >= 1
    /\ Len(df') = Len(df) + 1

NewRow == df'[Len(df')]
NewTrades == SubSeq(trades', Len(trades) + 1, Len(trades'))

ClosesShortFully(t) ==
    /\ t.Action = "CLOSE_SHORT"
    /\ t.Shares = shares_held
    /\ t.Profit = RMul(RSub(entry_price, t.Price), shares_held)

ClosesLongFully(t) ==
    /\ t.Action = "CLOSE_LONG"
    /\ t.Shares = shares_held
    /\ t.Profit = RMul(RSub(t.Price, entry_price), shares_held)

\* the open is sized from the cash left by the close
OpensLongFrom(t, cash) ==
    /\ t.Action = "BUY"
    /\ t.Shares = RDiv(IF RGt(RMul(cash, position_percentage), cash)
                       THEN cash ELSE RMul(cash, position_percentage), t.Price)

OpensShortFrom(t, cash) ==
    /\ t.Action = "SELL_SHORT"
    /\ t.Shares = RDiv(RMul(cash, position_percentage), t.Price)

\* C6 as stated: every buy bar while short appends CLOSE_SHORT then BUY and
\* ends long; every sell bar while long appends CLOSE_LONG then SELL_SHORT
\* and ends short.
C6_FlipAlwaysTwoRecords ==
    [][IsLongShortBar =>
        /\ (NewRow.buy /\ position = -1) =>
              /\ Len(NewTrades) = 2
              /\ ClosesShortFully(NewTrades[1])
              /\ OpensLongFrom(NewTrades[2], NewTrades[1].Balance)
              /\ position' = 1
        /\ (NewRow.sell /\ position = 1) =>
              /\ Len(NewTrades) = 2
              /\ ClosesLongFully(NewTrades[1])
              /\ OpensShortFrom(NewTrades[2], NewTrades[1].Balance)
              /\ position' = -1
      ]_vars

\* C6 (amended): a buy bar while short appends a CLOSE_SHORT of the full
\* quantity; when the cash left by that close is positive a BUY sized from
\* it follows and the bar ends long, otherwise nothing follows and the bar
\* ends flat.  A sell bar while long appends CLOSE_LONG then SELL_SHORT and
\* ends short.
C6_FlipWhenFunds ==
    [][IsLongShortBar =>
        /\ (NewRow.buy /\ position = -1) =>
              /\ Len(NewTrades) >= 1
              /\ ClosesShortFully(NewTrades[1])
              /\ IF RPos(NewTrades[1].Balance)
                 THEN /\ Len(NewTrades) = 2
                      /\ OpensLongFrom(NewTrades[2], NewTrades[1].Balance)
                      /\ position' = 1
                 ELSE /\ Len(NewTrades) = 1
                      /\ position' = 0
        /\ (NewRow.sell /\ position = 1) =>
              /\ Len(NewTrades) = 2
              /\ ClosesLongFully(NewTrades[1])
              /\ OpensShortFrom(NewTrades[2], NewTrades[1].Balance)
              /\ position' = -1
      ]_vars

\* a bar closed a short and opened a long, and a bar closed a long and
\* opened a short
C6_Witness ==
    /\ trading_mode = "long_short"
    /\ Len(trades) = 5
    /\ trades[2].Action = "CLOSE_SHORT" /\ trades[3].Action = "BUY"
    /\ trades[2].Index = trades[3].Index
    /\ trades[4].Action = "CLOSE_LONG" /\ trades[5].Action = "SELL_SHORT"
    /\ trades[4].Index = trades[5].Index

-----------------------------------------------------------------------------
(* Properties of the live engine *)

\* a step that makes one process_signals call on a non-empty frame
IsProcessSignalsCall ==
    /\ rs_pc = "body"
    /\ rs_pc' # "done"
    /\ call'.n = iteration + 1
    /\ ~call'.empty

Sent(c, kind) == \E k \in DOMAIN c.sent : c.sent[k] = kind

\* C7: a process_signals call whose latest row has both buy and sell true
\* is rejected by the validation: the call sends no buy, sell or
\* close_position order and appends nothing to the trade history, in both
\* trading modes and whatever the broker position is.
C7_ConflictingSignalsRejected ==
    [][(IsProcessSignalsCall /\ call'.buy /\ call'.sell) =>
          /\ call'.sent = <<>>
          /\ call'.appended = 0
          /\ lt_trades' = lt_trades
          /\ call'.validated => ~call'.valid
      ]_vars

\* a row with both signals reached the validation while the broker held a
\* position, and a row with both signals reached it while the broker was flat
C7_Witness ==
    /\ rs_pc = "display"
    /\ call.buy /\ call.sell /\ call.validated
    /\ call.pos_outcome = "ok"
    /\ call.br_qty_before = R(0)
    /\ call.quantity = R(3)
    /\ call.snap = [equity |-> 300, buying_power |-> 300]
    /\ ~HasPending(pending_orders, lt_symbol, "buy")
    /\ ~HasPending(pending_orders, lt_symbol, "sell")

\* the loop would start another iteration: it runs and max_iterations is
\* not reached
LoopContinues ==
    /\ running
    /\ ~(max_iterations # 0 /\ iteration >= max_iterations)

\* a step of the iteration's try block in which an exception is raised
RaisesInIteration ==
    /\ rs_pc \in {"body", "display", "chart"}
    /\ call' # call
    /\ call'.exc # "none"

\* C8: an exception raised inside an iteration (by get_live_data, by
\* process_signals and what it calls, by the stats display or by the chart
\* callback) does not end run_strategy: the step that raises leads to the
\* end of the iteration with the run flag untouched, the iteration counter
\* then advances by one, the loop sleeps while it still runs, and the next
\* iteration starts unless the loop was stopped or max_iterations is reached.
C8_ExceptionsNeverEndTheLoop ==
    [][ /\ exit_cause' # "exception"
        /\ RaisesInIteration =>
              /\ rs_pc' = "inc"
              /\ running' = running
              /\ iteration' = iteration
        /\ (rs_pc = "inc" /\ rs_pc' # "inc") =>
              /\ iteration' = iteration + 1
              /\ rs_pc' = (IF running THEN "sleep" ELSE "top")
        /\ (rs_pc = "sleep" /\ rs_pc' # "sleep") =>
              rs_pc' = "top" \/ exit_cause' = "keyboard_interrupt"
        /\ (rs_pc = "top" /\ LoopContinues /\ rs_pc' # "top") => rs_pc' = "body"
      ]_vars

\* the chart callback raised in the first iteration; the counter advanced,
\* the loop slept and is about to start the second iteration
C8_Witness ==
    /\ rs_pc = "top"
    /\ iteration = 1
    /\ call.n = 1
    /\ call.exc = "chart_callback"
    /\ LoopContinues

\* the broker reported the account during the call, and trade_value exceeds
\* the reported buying power or the reported equity is not positive
Unfunded(c) ==
    /\ c.snap # NoSnap
    /\ \/ c.snap.equity <= 0
       \/ c.quantity # NoQuantity
            /\ RGt(RMul(c.quantity, c.price), R(c.snap.buying_power))

ConfirmedAgainst(c) ==
    /\ c.confirm \in AcctOutcomes
    /\ c.confirm = "ok" =>
          /\ c.confirm_equity = R(c.snap.equity)
          /\ c.confirm_buying_power = R(c.snap.buying_power)
    /\ c.confirm = "raises" =>
          /\ c.confirm_equity = lt_current_balance
          /\ c.confirm_buying_power = lt_current_balance
    /\ c.confirm = "empty" =>
          /\ c.confirm_equity = R(0)
          /\ c.confirm_buying_power = R(0)

C10_BuyOnlyWhenBrokerFlat ==
    (lt_trading_mode = "long_only" /\ call.n > 0 /\ Sent(call, "buy")) =>
        /\ call.br_qty_before = R(0)
        /\ ~call.pending_buy

\* the tracked orders for the engine's symbol that are at least one minute
\* old when the call starts
ExpiredAtCall ==
    {id \in DOMAIN pending_orders :
        /\ pending_orders[id].symbol = lt_symbol
        /\ now - order_timestamps[id] >= timeout_minutes}

\* a long-only process_signals call that gets as far as the position query
IsLongOnlyQueryingCall ==
    /\ IsProcessSignalsCall
    /\ lt_trading_mode = "long_only"
    /\ call'.validated

C12_PendingOrdersAreLive ==
    DOMAIN pending_orders = {id \in DOMAIN br_orders : br_orders[id] = "pending"}

-----------------------------------------------------------------------------
(* Properties of the backtest engine: spread, sizing, analysis *)

\* spread_pips * pip, with the pip of the claim: 0.01 for JPY pairs, 0.0001
\* otherwise
SpreadOfClaim ==
    RMul(spread_pips, IF symbol = "C:USDJPY" THEN Rat(1, 100) ELSE Rat(1, 10000))

\* the Close of the bar a record was made on
CloseOf(t) == df[t.Index + 1].Close

\* C13: with a forex symbol and spread_pips > 0 the Price of every buy-side
\* record (BUY, CLOSE_SHORT) is close + spread_pips * pip and the Price of
\* every sell-side record (CLOSE, CLOSE_LONG, SELL_SHORT) is
\* close - spread_pips * pip, and an opening record's Price is the entry
\* price the ledger holds after it.
C13_SpreadOnEveryRecord ==
    (is_forex /\ RPos(spread_pips)) =>
        /\ \A k \in DOMAIN trades :
              trades[k].Price =
                  IF trades[k].Action \in {"BUY", "CLOSE_SHORT"}
                  THEN RAdd(CloseOf(trades[k]), SpreadOfClaim)
                  ELSE RSub(CloseOf(trades[k]), SpreadOfClaim)
        /\ (trades # <<>> /\ IsOpen(trades[Len(trades)])) =>
              entry_price = trades[Len(trades)].Price

\* the cash balance held immediately before record k was made
CashBefore(k) == IF k = 1 THEN R(initial_balance) ELSE trades[k - 1].Balance

\* C14: every opening record (BUY or SELL_SHORT) has
\* Shares = trade_amount / execution price, where trade_amount is the cash
\* held before the open * position_percentage, at most that cash; so
\* Shares * execution price never exceeds the cash held before the open.
C14_OpenSizedWithinCash ==
    spread_pips = R(0) =>
        \A k \in DOMAIN trades :
            IsOpen(trades[k]) =>
                LET cash == CashBefore(k)
                    wanted == RMul(cash, position_percentage)
                    trade_amount == IF RGt(wanted, cash) THEN cash ELSE wanted
                IN  /\ trades[k].Shares = RDiv(trade_amount, trades[k].Price)
                    /\ RLe(RMul(trades[k].Shares, trades[k].Price), cash)

\* no row of the frame read so far has a signal
NoSignals == \A j \in DOMAIN df : ~df[j].buy /\ ~df[j].sell

\* C15: a backtest over an empty frame, or over rows whose signals are all
\* false, has an empty trade list (the ledger is as reset() left it), and
\* analyze_results on that list returns num_trades 0, winrate 0,
\* final_balance = initial_balance and net_returns 0 without raising.
C15_NoSignalsNoTrades ==
    (bt_pc \in {"loop", "done", "analyzed"} /\ NoSignals) =>
        /\ trades = <<>>
        /\ position = 0
        /\ current_balance = R(initial_balance)
        /\ bt_pc = "analyzed" =>
              /\ ~analysis.raised
              /\ analysis.num_trades = 0
              /\ analysis.winrate = R(0)
              /\ analysis.final_balance = R(initial_balance)
              /\ analysis.net_returns = R(0)

\* three rows without a signal were run and analysed
C15_Witness ==
    /\ bt_pc = "analyzed"
    /\ Len(df) = 3
    /\ NoSignals
    /\ analysis.num_trades = 0

\* the closing records of the list: those with Profit and Result set
ClosingRecords == {k \in DOMAIN trades : NotNa(trades[k], "Profit") /\ NotNa(trades[k], "Result")}

WinningRecords == {k \in ClosingRecords : trades[k].Result = "Win"}

\* num_trades and winrate as the contract states them
CountsMatchRecords ==
    /\ analysis.num_trades = Cardinality(ClosingRecords)
    /\ analysis.winrate =
          IF ClosingRecords = {} THEN R(0)
          ELSE RMul(RDiv(R(Cardinality(WinningRecords)), R(Cardinality(ClosingRecords))), R(100))

\* C16: for every trade list a backtest produces, analyze_results returns
\* num_trades = the number of closing records (opening records count for
\* nothing) and winrate = wins / num_trades * 100, or 0 when num_trades = 0.
C16_CountsCompletedTrades ==
    bt_pc = "analyzed" => (~analysis.raised /\ CountsMatchRecords)

\* what the code does satisfy: the counts are right whenever a result is returned
C16_CountsWhenReturned ==
    (bt_pc = "analyzed" /\ ~analysis.raised) => CountsMatchRecords

\* C17: analyze_results never raises, and for a trade list without a
\* completed trade (the empty list, or opening records only) it returns the
\* zero-result: num_trades 0, winrate 0, largest_win 0, largest_loss 0.
C17_ZeroResultWithoutCompletedTrade ==
    bt_pc = "analyzed" =>
        /\ ~analysis.raised
        /\ ClosingRecords = {} =>
              /\ analysis.num_trades = 0
              /\ analysis.winrate = R(0)
              /\ analysis.largest_win = R(0)
              /\ analysis.largest_loss = R(0)

\* a returned result exists for every list that has a closing record or is empty
C17_RaisesOnlyOnOpenOnlyLists ==
    (bt_pc = "analyzed" /\ analysis.raised) => (trades # <<>> /\ ClosingRecords = {})

\* a process_signals call in which the broker call of an order raised or
\* returned status 'failed'
OrderFailsInCall ==
    /\ IsProcessSignalsCall
    /\ call'.sent # <<>>
    /\ call'.outcome \in {"raises", "failed"}

\* C18: when the broker call for an order (buy, sell or close_position)
\* raises or returns status 'failed', the call appends nothing to the trade
\* history, process_signals returns normally (no exception reaches the
\* iteration), and the loop goes on with the rest of the iteration and the
\* run flag untouched; in both trading modes.
C18_FailedOrderNotRecorded ==
    [][OrderFailsInCall =>
          /\ lt_trades' = lt_trades
          /\ call'.appended = 0
          /\ call'.exc = "none"
          /\ rs_pc' = "display"
          /\ running' = running
          /\ br_qty' = br_qty
      ]_vars

\* the broker call of a buy raised in the second iteration of a long-short
\* run; process_signals returned
C18_Witness ==
    /\ lt_trading_mode = "long_short"
    /\ rs_pc = "display"
    /\ call.n = 2
    /\ Sent(call, "buy")
    /\ call.outcome = "raises"
    /\ call.exc = "none"

\* the same in a long-only run, for a close_position that returned 'failed'
C18_WitnessLongOnlyClose ==
    /\ lt_trading_mode = "long_only"
    /\ rs_pc = "display"
    /\ Sent(call, "close")
    /\ call.outcome = "failed"

\* stop() was called during a run that has not returned yet
StopRequested == ~running /\ rs_pc \in {"top", "body", "display", "chart", "inc", "sleep"}

\* C19: the stop flag is acted on at loop top. Once stop() has set running
\* to False during a run, the flag stays False; the iteration in flight
\* still makes its fetch and processing, its display and its chart callback
\* and advances the counter; after the counter the loop does not sleep but
\* goes to loop top (a sleep already entered ends there too); from loop top
\* the only step is the return of run_strategy, so that no later iteration
\* fetches data or processes signals.
C19_StopObservedAtLoopTop ==
    [][StopRequested =>
          /\ ~running'
          /\ rs_pc = "top" => (rs_pc' = "done" /\ exit_cause' = "stopped" /\ lt_trades' = lt_trades)
          /\ rs_pc = "body" =>
                \/ rs_pc' \in {"display", "inc"} /\ call'.n = iteration + 1
                \/ rs_pc' = "done" /\ exit_cause' = "keyboard_interrupt"
          /\ rs_pc = "display" => rs_pc' \in {"chart", "inc"}
          /\ rs_pc = "chart" => rs_pc' = "inc"
          /\ rs_pc = "inc" => (rs_pc' = "top" /\ iteration' = iteration + 1)
          /\ rs_pc = "sleep" => (rs_pc' = "top" \/ rs_pc' = "done")
          /\ rs_pc' # "body"
      ]_vars

\* stop() was called during the first iteration; the counter advanced, no
\* time was spent asleep, and run_strategy returned from loop top although
\* no max_iterations was set
C19_Witness ==
    /\ rs_pc = "done"
    /\ exit_cause = "stopped"
    /\ iteration = 1
    /\ max_iterations = 0
    /\ now = 0
    /\ ~running

\* C20 as stated: a KeyboardInterrupt is the only condition that ends the
\* loop of run_strategy, and running is False afterwards.
C20_OnlyKeyboardInterruptEnds ==
    rs_pc = "done" => (exit_cause = "keyboard_interrupt" /\ ~running)

\* C20, amended: run_strategy returns for one of three reasons only: a
\* KeyboardInterrupt (running is False afterwards), the stop flag found
\* False at loop top, or max_iterations reached at loop top (running stays
\* True); an exception raised inside an iteration never ends the loop.
C20_LoopEndsByInterruptStopOrLimit ==
    rs_pc = "done" =>
        \/ exit_cause = "keyboard_interrupt" /\ ~running
        \/ exit_cause = "stopped" /\ ~running
        \/ /\ exit_cause = "max_iterations"
           /\ running
           /\ max_iterations # 0
           /\ iteration >= max_iterations

\* the loop ended on max_iterations after one full iteration, the run flag
\* still set
C20_Witness ==
    /\ rs_pc = "done"
    /\ exit_cause = "max_iterations"
    /\ iteration = 1
    /\ running

\* a long/short process_signals call that passed the validation with a
\* buy or a sell signal
IsLongShortSignalCall ==
    /\ IsProcessSignalsCall
    /\ lt_trading_mode = "long_short"
    /\ call'.valid
    /\ call'.buy \/ call'.sell

\* the tracked orders of the symbol on the side opposite to the signal
OppositeAtCall ==
    {id \in DOMAIN pending_orders :
        /\ pending_orders[id].symbol = lt_symbol
        /\ pending_orders[id].side = (IF call'.buy THEN "sell" ELSE "buy")}

\* every other tracked order is kept as it was, and none is added
OthersUntouched(cancelled) ==
    /\ DOMAIN pending_orders' \subseteq DOMAIN pending_orders
    /\ \A id \in DOMAIN pending_orders \ cancelled :
          /\ id \in DOMAIN pending_orders'
          /\ pending_orders'[id] = pending_orders[id]
          /\ order_timestamps'[id] = order_timestamps[id]

FetchedQty(c) == IF c.pos_outcome = "ok" THEN c.br_qty_before ELSE R(0)

\* the confirmation of the call, from the account report fetched for it
FundedFor(c, action) ==
    /\ c.confirm # "none"
    /\ ConfirmTradeExecution(action, c.quantity, c.price, GetAlpacaAccount(c.confirm, c.snap))

\* the order a validated call submits, as a function of the latest row, the
\* broker's answers of the call, the tracked pending orders and the
\* configuration alone
DecidedOrder(c) ==
    LET q == FetchedQty(c)
        has_pending_sell == HasPending(pending_orders, lt_symbol, "sell")
    IN  IF ~c.valid THEN "none"
        ELSE IF lt_trading_mode = "long_only"
        THEN IF c.buy /\ q = R(0) /\ ~c.pending_buy
             THEN IF FundedFor(c, "BUY") THEN "buy" ELSE "none"
             ELSE IF c.buy THEN "none"
             ELSE IF c.sell /\ RPos(q) THEN "close"
             ELSE "none"
        ELSE IF c.buy
        THEN IF q[1] < 0 THEN "close"
             ELSE IF q = R(0) /\ ~c.pending_buy
             THEN IF FundedFor(c, "BUY") THEN "buy" ELSE "none"
             ELSE "none"
        ELSE IF c.sell
        THEN IF RPos(q) THEN "close"
             ELSE IF q = R(0) /\ ~has_pending_sell
             THEN IF FundedFor(c, "SELL") THEN "sell" ELSE "none"
             ELSE "none"
        ELSE "none"

\* C22: the order a process_signals call submits is determined by the
\* latest signal row, the position and account values the broker answered
\* with during that call, the tracked pending orders and the configuration;
\* the position the call works with is the one just fetched, and the
\* engine's local position and entry_price left by earlier calls do not
\* enter the decision.
C22_DecisionFromBrokerTruth ==
    (call.n > 0 /\ ~call.empty /\ call.validated) =>
        /\ call.current_qty = FetchedQty(call)
        /\ call.sent = (IF DecidedOrder(call) = "none" THEN <<>> ELSE <<DecidedOrder(call)>>)

\* the first call opened a short with the broker flat, which left the local
\* position at 0; the second call, on a buy signal, closed the broker's
\* short although the engine's local position said flat
C22_Witness ==
    /\ lt_trading_mode = "long_short"
    /\ rs_pc = "display"
    /\ call.n = 2
    /\ call.buy
    /\ RLt(call.current_qty, R(0))
    /\ Len(lt_trades) = 2
    /\ lt_trades[1].action = "sell_short" /\ lt_trades[1].timestamp = 1
    /\ lt_trades[2].action = "close_short"
    /\ Sent(call, "close")

\* the validation of the call failed for a reason of its own: the window
\* is shorter than the lookback, the strategy's validator returned false,
\* or the validation raised
ValidationFailed(c) == c.validation \in {"short_lookback", "validator_false", "raises"}

\* C23: whenever the validation of the latest row fails (window shorter
\* than the required lookback, the strategy's validator returns false, or
\* the validation raises), process_signals submits no order, appends no
\* trade entry and returns without raising.
C23_FailedValidationDoesNothing ==
    (call.n > 0 /\ ~call.empty /\ call.validated /\ ValidationFailed(call)) =>
        /\ ~call.valid
        /\ call.sent = <<>>
        /\ call.appended = 0
        /\ call.confirm = "none"
        /\ call.exc = "none"
        /\ rs_pc = "display"

\* the validation raised on a buy signal with the broker flat and no
\* pending buy, where a valid signal would have led to an order
C23_Witness ==
    /\ rs_pc = "display"
    /\ call.validation = "raises"
    /\ call.buy /\ ~call.sell
    /\ call.current_qty = R(0)
    /\ ~HasPending(pending_orders, lt_symbol, "buy")
    /\ call.sent = <<>>

\* the records appended for the row of index i
RecordsAt(i) == {k \in DOMAIN trades : trades[k].Index = i}

\* C24: the backtest is a single pass from the second row on: no record
\* belongs to the first row (index 0) whatever its signals, every record
\* belongs to a row already read that carries a signal, the Index values
\* of the trade list never decrease, a row has at most two records and in
\* long-only mode at most one, and two records of one row are a close
\* followed by the open of the opposite position.
C24_SinglePassFromSecondRow ==
    /\ \A k \in DOMAIN trades :
          /\ trades[k].Index \in 1..(Len(df) - 1)
          /\ df[trades[k].Index + 1].buy \/ df[trades[k].Index + 1].sell
    /\ \A k \in 1..(Len(trades) - 1) :
          /\ trades[k].Index <= trades[k + 1].Index
          /\ trades[k].Index = trades[k + 1].Index =>
                /\ trading_mode = "long_short"
                /\ \/ trades[k].Action = "CLOSE_SHORT" /\ trades[k + 1].Action = "BUY"
                   \/ trades[k].Action = "CLOSE_LONG" /\ trades[k + 1].Action = "SELL_SHORT"
    /\ \A i \in 0..Len(df) :
          Cardinality(RecordsAt(i)) <= (IF trading_mode = "long_only" THEN 1 ELSE 2)

\* a long/short run whose first row carried a buy signal that left no
\* record, and whose third row closed the long and opened the short
C24_Witness ==
    /\ trading_mode = "long_short"
    /\ Len(df) >= 3
    /\ df[1].buy
    /\ Len(trades) >= 3
    /\ trades[1].Index = 1
    /\ trades[2].Index = 2 /\ trades[2].Action = "CLOSE_LONG"
    /\ trades[3].Index = 2 /\ trades[3].Action = "SELL_SHORT"

\* C25: a bar whose execution price (the close, the ask or the bid) is not
\* positive is ignored: it appends no record, so every record of a
\* long-only run carries a positive Price; and no close is executed on a
\* zero-quantity position, so every closing record carries positive Shares.
C25_NonPositivePriceIgnored ==
    trading_mode = "long_only" =>
        \A k \in DOMAIN trades :
            /\ RPos(trades[k].Price)
            /\ IsClose(trades[k]) => RPos(trades[k].Shares)

\* what the code does satisfy: a close is executed on a held quantity only
C25_ClosesHaveShares ==
    \A k \in DOMAIN trades : IsClose(trades[k]) => RPos(trades[k].Shares)

\* a step of the loop that processes one row (not the first) in long-only mode
IsLongOnlyBar ==
    /\ bt_pc = "loop"
    /\ trading_mode = "long_only"
    /\ Len(df) >= 1
    /\ Len(df') = Len(df) + 1

LedgerUnchanged ==
    UNCHANGED <<position, shares_held, entry_price, current_balance, realized_gains, trades>>

CashAfter(k) ==
    LET t == trades[k]
    IN  IF t.Action = "BUY" THEN RSub(CashBefore(k), t.Cost)
        ELSE IF t.Action = "SELL_SHORT" THEN RAdd(CashBefore(k), t.Proceeds)
        ELSE IF t.Action = "CLOSE_SHORT" THEN RSub(CashBefore(k), RMul(t.Shares, t.Price))
        ELSE RAdd(CashBefore(k), t.Proceeds)

\* C27: every trade record is well-formed for its action: an opening record
\* (BUY, SELL_SHORT) has Last_Trade_Realized = 0 and Trade_Result = OPEN and
\* no Profit or Result; a closing record (CLOSE, CLOSE_LONG, CLOSE_SHORT) has
\* Last_Trade_Realized = Profit and Result = Trade_Result = Win when
\* Profit > 0 and Loss otherwise (so a break-even close is a Loss); Balance
\* is the cash right after the action, and the latest record's Balance is
\* the ledger's cash.
C27_RecordsWellFormed ==
    /\ \A k \in DOMAIN trades :
          LET t == trades[k]
          IN  /\ IsOpen(t) \/ IsClose(t)
              /\ IsOpen(t) =>
                    /\ t.Last_Trade_Realized = R(0)
                    /\ t.Trade_Result = "OPEN"
                    /\ ~NotNa(t, "Profit") /\ ~NotNa(t, "Result")
              /\ IsClose(t) =>
                    /\ t.Last_Trade_Realized = t.Profit
                    /\ t.Result = (IF RPos(t.Profit) THEN "Win" ELSE "Loss")
                    /\ t.Trade_Result = t.Result
              /\ t.Balance = CashAfter(k)
    /\ trades # <<>> => trades[Len(trades)].Balance = current_balance

\* a long bought and sold at the same price: the close has Profit 0 and is
\* a Loss
C27_Witness ==
    /\ Len(trades) = 2
    /\ trades[1].Action = "BUY"
    /\ IsClose(trades[2])
    /\ trades[2].Profit = R(0)
    /\ trades[2].Result = "Loss" /\ trades[2].Trade_Result = "Loss"
    /\ trades[2].Balance = current_balance

\* run_strategy is inside an iteration (between the fetch and the counter)
InIteration == rs_pc \in {"body", "display", "chart", "inc"}

\* C28: with max_iterations = n >= 1 the loop never starts an iteration
\* beyond the n-th (inside an iteration the counter of completed iterations
\* is below n, whether or not iterations raised), and when it ends on its
\* own, by the max_iterations test, exactly n iterations were completed;
\* without max_iterations the loop ends only by a stop request or a
\* KeyboardInterrupt, never on its own.
C28_RunsExactlyMaxIterations ==
    /\ (max_iterations >= 1 /\ InIteration) => iteration < max_iterations
    /\ (max_iterations >= 1 /\ rs_pc \in {"top", "sleep"}) => iteration <= max_iterations
    /\ (rs_pc = "done" /\ exit_cause = "max_iterations") =>
          /\ max_iterations >= 1
          /\ iteration = max_iterations
    /\ (rs_pc = "done" /\ running) => exit_cause = "max_iterations"
    /\ (rs_pc = "done" /\ max_iterations = 0) =>
          exit_cause \in {"stopped", "keyboard_interrupt"}
    /\ (rs_pc \in {"top", "sleep"} /\ iteration >= 1) => call.n = iteration

\* a run with max_iterations = 1 whose only iteration raised in the fetch:
\* the counter reached 1 and the loop is at the test that ends it
C28_Witness ==
    /\ max_iterations = 1
    /\ rs_pc = "top"
    /\ iteration = 1
    /\ call.n = 1
    /\ call.exc = "get_live_data"
    /\ running

\* the fill a step of the simulated broker appended to the trade history
FillOfStep == trade_history'[Len(trade_history) + 1]

HeldBefore(sym) == IF sym \in DOMAIN positions THEN positions[sym].qty ELSE R(0)

\* C29: in the simulated broker's ledger a fill of add_qty at p that adds to
\* a same-side position (old_qty, old_avg) gives the quantity old_qty + add_qty
\* and the entry price (old_qty*old_avg + add_qty*p) / (old_qty + add_qty),
\* for a buy on a long and for a sell on a short; a fill that opens from no
\* position or from a zero-quantity one gives the entry price p; a partial
\* close leaves the entry price unchanged.
C29_WeightedAverageEntry ==
    [][Len(trade_history') = Len(trade_history) + 1 =>
        LET f == FillOfStep
            old_qty == RAbs(HeldBefore(f.symbol))
            old_avg == positions[f.symbol].avg_entry_price
            new == positions'[f.symbol]
            sign == IF f.side = "buy" THEN 1 ELSE -1
            held == HeldBefore(f.symbol)[1] * sign
        IN  /\ held > 0 =>
                /\ RAbs(new.qty) = RAdd(old_qty, f.qty)
                /\ new.qty[1] * sign > 0
                /\ new.avg_entry_price =
                       RDiv(RAdd(RMul(old_qty, old_avg), RMul(f.qty, f.price)),
                            RAdd(old_qty, f.qty))
            /\ held = 0 =>
                /\ RAbs(new.qty) = f.qty
                /\ new.qty[1] * sign > 0
                /\ new.avg_entry_price = f.price
            /\ (held < 0 /\ RLt(f.qty, old_qty)) =>
                /\ RAbs(new.qty) = RSub(old_qty, f.qty)
                /\ new.qty[1] * sign < 0
                /\ new.avg_entry_price = old_avg]_vars

\* a long of 1 @ 100 was increased by 1 @ 110 to 2 @ 105, then sold down to
\* 1, still @ 105
C29_Witness ==
    /\ Len(trade_history) = 3
    /\ trade_history[1].side = "buy" /\ trade_history[1].price = R(100)
    /\ trade_history[2].side = "buy" /\ trade_history[2].price = R(110)
    /\ trade_history[3].side = "sell" /\ trade_history[3].price = R(100)
    /\ positions["AAPL"] = [qty |-> R(1), avg_entry_price |-> R(105), side |-> "long"]

\* a position closed to zero quantity @ 110 was opened again @ 100
C29_WitnessFromZeroQuantity ==
    /\ Len(trade_history) = 3
    /\ trade_history[2].price = R(110)
    /\ trade_history[2].qty = trade_history[1].qty
    /\ trade_history[2].side # trade_history[1].side
    /\ trade_history[3].price = R(100)
    /\ positions["AAPL"].avg_entry_price = R(100)
    /\ positions["AAPL"].side = "short"

\* the latest call was a long/short call that passed validation and met a
\* signal against the position it fetched
ReversalSignalAtCall ==
    /\ lt_trading_mode = "long_short"
    /\ call.n > 0 /\ ~call.empty /\ call.valid
    /\ \/ call.buy /\ call.current_qty[1] < 0
       \/ call.sell /\ call.current_qty[1] > 0

\* C30: a live process_signals call sends at most one position-changing
\* order (buy, sell or close_position); in long/short mode a buy signal
\* while the fetched position is short, or a sell signal while it is long,
\* sends nothing but the close, and the broker does not hold the opposite
\* position after the call.
C30_AtMostOneOrderPerCall ==
    /\ Len(call.sent) <= 1
    /\ ReversalSignalAtCall =>
        /\ call.sent \in {<<>>, <<"close">>}
        /\ call.exc = "none" => call.sent = <<"close">>
        /\ rs_pc = "display" =>
            IF call.buy THEN ~RPos(br_qty) ELSE br_qty[1] >= 0

\* a buy signal met a short position: the call closed it and the broker is
\* flat, no long was opened
C30_Witness ==
    /\ ReversalSignalAtCall
    /\ rs_pc = "display"
    /\ call.buy /\ call.br_qty_before[1] < 0
    /\ call.sent = <<"close">> /\ call.outcome = "filled"
    /\ br_qty = R(0)

\* C31: at every bar boundary of a backtest, in both trading modes, a flat
\* position has cash equal to initial_balance + realized_gains: what opening
\* a long or a short paid or received is undone by the close, the realized
\* profit is what remains.
C31_FlatCashIsInitialPlusRealized ==
    position = 0 => current_balance = RAdd(R(initial_balance), realized_gains)

\* a short was closed at a loss and no long followed: flat, cash moved by
\* the realized loss
C31_Witness ==
    /\ trading_mode = "long_short"
    /\ position = 0
    /\ Len(trades) >= 2
    /\ trades[Len(trades)].Action = "CLOSE_SHORT"
    /\ realized_gains[1] < 0
    /\ current_balance # R(initial_balance)

\* long-only: a long was closed with a profit
C31_WitnessLongOnly ==
    /\ trading_mode = "long_only"
    /\ position = 0
    /\ Len(trades) >= 2
    /\ trades[Len(trades)].Action = "CLOSE"
    /\ realized_gains[1] > 0

\* C32: with positive bar prices every backtest state has the ledger shape:
\* position is -1, 0 or 1; position = 0 exactly when shares_held = 0; an
\* open position has shares_held > 0 and entry_price > 0; long-only mode is
\* never short.
C32_LedgerShape ==
    /\ position \in {-1, 0, 1}
    /\ (position = 0) <=> (shares_held = R(0))
    /\ position # 0 => RPos(shares_held) /\ RPos(entry_price)
    /\ trading_mode = "long_only" => position # -1

\* both shapes of a held position happened in one run: a short was opened
\* on an earlier bar and the engine now holds a long
C32_Witness ==
    /\ position = 1 /\ RPos(shares_held) /\ RPos(entry_price)
    /\ \E k \in DOMAIN trades : trades[k].Action = "SELL_SHORT"

\* flat again after a position was held
C32_WitnessFlat ==
    /\ position = 0 /\ shares_held = R(0) /\ Len(trades) >= 2

\* flat and without funds
FlatWithoutFunds == position = 0 /\ RLe(current_balance, R(0))

\* C33: in a backtest a flat position with cash <= 0 is absorbing: from
\* such a state no later bar appends a trade record or changes the ledger,
\* whatever its signals, in both trading modes.
C33_FlatWithoutFundsAbsorbing ==
    [][(FlatWithoutFunds /\ bt_pc = "loop" /\ df' # df) =>
          /\ trades' = trades
          /\ position' = 0
          /\ current_balance' = current_balance
          /\ realized_gains' = realized_gains]_vars

\* a short was closed at a loss that used up the cash, and a later bar with
\* a signal went by
C33_Witness ==
    /\ FlatWithoutFunds
    /\ bt_pc = "loop"
    /\ Len(trades) >= 2
    /\ trades[Len(trades)].Action = "CLOSE_SHORT"
    /\ trades[Len(trades)].Index < Len(df) - 1
    /\ df[Len(df)].buy \/ df[Len(df)].sell

\* C34: cancel_order(id) drops id from pending_orders and order_timestamps
\* exactly when the broker accepted the cancellation; a failed cancellation
\* leaves the tracking of the order as it was; the two maps always have the
\* same keys.  Every order with an id is tracked from its submission and
\* cancel_order is the only removal, so: an order of the broker's book is
\* untracked if and only if the broker has cancelled it.
C34_UntrackedIffCancelAccepted ==
    /\ \A id \in DOMAIN br_orders :
          (id \notin DOMAIN pending_orders) <=> (br_orders[id] = "canceled")
    /\ DOMAIN pending_orders = DOMAIN order_timestamps

\* what the code does satisfy: the maps have the same keys, an order whose
\* cancellation the broker accepted is untracked, and an order is still
\* tracked after a cancel call that raised
C34_TrackingConsistent ==
    /\ DOMAIN pending_orders = DOMAIN order_timestamps
    /\ \A id \in DOMAIN br_orders :
          br_orders[id] = "canceled" => id \notin DOMAIN pending_orders
    /\ call.cancel_raised \subseteq DOMAIN pending_orders

\* C35: the live trade history holds an entry only for an order whose
\* result has a status that is neither 'failed' nor 'pending'; for opens and
\* for closes, in long-only and in long/short mode.
C35_OnlyExecutedOrdersRecorded ==
    \A k \in DOMAIN lt_trades : lt_trades[k].status \notin {"failed", "pending"}

\* what the code does satisfy: no failed order is recorded, and the only
\* entries for a pending order are the closes of the long/short mode
C35_PendingOnlyForLongShortCloses ==
    \A k \in DOMAIN lt_trades :
        /\ lt_trades[k].status # "failed"
        /\ lt_trades[k].status = "pending" =>
              /\ lt_trading_mode = "long_short"
              /\ lt_trades[k].action \in {"close_short", "close_long"}

\* C36: the buy confirmation fails closed: a buy order is sent only if, in
\* the same call, the account query of the confirmation succeeded and
\* reported equity > 0 and buying power >= quantity * price; when the query
\* raises or reports no equity / buying power, no order is sent.
C36_BuyConfirmationFailsClosed ==
    (call.n > 0 /\ ~call.empty) =>
        /\ Sent(call, "buy") =>
              /\ call.confirm = "ok"
              /\ call.snap.equity > 0
              /\ RLe(RMul(call.quantity, call.price), R(call.snap.buying_power))
        /\ call.confirm \in {"raises", "empty"} => call.sent = <<>>

\* what the code does satisfy: a report without the values rejects the
\* order, and a report with values is checked as the claim says
C36_ClosedOnEmptyReport ==
    (call.n > 0 /\ ~call.empty) =>
        /\ call.confirm = "empty" => call.sent = <<>>
        /\ (Sent(call, "buy") /\ call.confirm = "ok") =>
              /\ call.snap.equity > 0
              /\ RLe(RMul(call.quantity, call.price), R(call.snap.buying_power))
        /\ Sent(call, "buy") => call.confirm \in {"ok", "raises"}

\* the quantity held under the ledger key sym after the first k fills
RECURSIVE NetAfter(_, _)
NetAfter(k, sym) ==
    IF k = 0 THEN R(0)
    ELSE LET f == trade_history[k]
             before == NetAfter(k - 1, sym)
         IN  IF f.symbol # sym THEN before
             ELSE IF f.side = "buy" THEN RAdd(before, f.qty)
             ELSE RSub(before, f.qty)

\* no fill so far has made a position short
NoShortOpened ==
    \A k \in 1..Len(trade_history) :
        RGe(NetAfter(k, trade_history[k].symbol), R(0))

\* C37: the simulated broker never executes a buy whose value exceeds its
\* cash: after any sequence of buy (market or limit), sell, close_position,
\* cancel_order and check_pending_orders calls from a non-negative initial
\* balance, with no short position opened, cash_balance is not negative.
C37_CashNeverNegative ==
    NoShortOpened => RGe(cash_balance, R(0))

\* what the code does satisfy: a buy executed by the buy call itself (market,
\* or a limit the price has reached) costs no more than the cash, so that a
\* buy call with too little cash changes neither cash, positions, pending
\* orders nor trade history
C37_ImmediateBuysFunded ==
    [][(order_counter' = order_counter + 1 /\ trade_history' # trade_history) =>
          LET f == trade_history'[Len(trade_history')]
          IN  /\ Len(trade_history') = Len(trade_history) + 1
              /\ f.order_id = order_counter
              /\ orders' = orders
              /\ f.side = "buy" =>
                    /\ RLe(RMul(f.qty, f.price), cash_balance)
                    /\ cash_balance' = RSub(cash_balance, RMul(f.qty, f.price))
      ]_vars

\* a check_pending_orders step that filled exactly the one pending order id
FilledLater(id) ==
    /\ order_counter' = order_counter
    /\ DOMAIN orders \ DOMAIN orders' = {id}
    /\ Len(trade_history') = Len(trade_history) + 1

\* the ledger after the same order was filled by the buy / sell call itself,
\* at the limit price
FilledAtOnce(order) ==
    IF order.side = "buy"
    THEN ExecuteBuy(Account, StorageSymbol(order.symbol), order.qty,
                    order.limit_price, order.id)
    ELSE ExecuteSell(Account, StorageSymbol(order.symbol), order.qty,
                     order.limit_price, order.id)

\* the forms under which a symbol may be asked for
SymbolForms(sym) ==
    {s \in SbSymbols \cup {StorageSymbol(t) : t \in SbSymbols} :
        StorageSymbol(s) = StorageSymbol(sym)}

\* C38: a limit order stored as pending and filled later by
\* check_pending_orders leaves the position state the same order leaves when
\* filled at once at the limit price: for every form of the symbol (with or
\* without '/') get_position_for_symbol reports that quantity and entry
\* price; the order is no longer pending; and only a new order or an order
\* still pending is ever filled (a cancelled order never is).
C38_LaterFillLikeImmediateFill ==
    [][/\ \A id \in DOMAIN orders :
            FilledLater(id) =>
                /\ id \notin DOMAIN orders'
                /\ \A s \in SymbolForms(orders[id].symbol) :
                      GetPositionForSymbol(positions', s) =
                          GetPositionForSymbol(FilledAtOnce(orders[id]).positions, s)
       /\ \A k \in (Len(trade_history) + 1)..Len(trade_history') :
            \/ trade_history'[k].order_id = order_counter
            \/ trade_history'[k].order_id \in DOMAIN orders
      ]_vars

\* what the code does satisfy: the same for an order whose symbol has no
\* '/'; every filled order leaves the pending set; a cancelled order is
\* never filled
C38_LaterFillLikeImmediateWithoutSlash ==
    [][/\ \A id \in DOMAIN orders :
            FilledLater(id) =>
                /\ id \notin DOMAIN orders'
                /\ StorageSymbol(orders[id].symbol) = orders[id].symbol =>
                      \A s \in SymbolForms(orders[id].symbol) :
                          GetPositionForSymbol(positions', s) =
                              GetPositionForSymbol(FilledAtOnce(orders[id]).positions, s)
       /\ \A k \in (Len(trade_history) + 1)..Len(trade_history') :
            \/ trade_history'[k].order_id = order_counter
            \/ trade_history'[k].order_id \in DOMAIN orders
      ]_vars

====
